---------------------------- MODULE Spec2Model ----------------------------
(***************************************************************************)
(* A model of flvjoin: the joining of Flash Video files (flvjoin.c), its   *)
(* metadata packet (metadata.c) and its byte conversions (data_conv.c).    *)
(*                                                                         *)
(* Bytes are the integers 0..255 and a buffer is a sequence of bytes.  C   *)
(* arrays are indexed from 0, sequences from 1: At(s, i) is s[i] of C.     *)
(* A double is held as the eight bytes of its IEEE-754 pattern, most       *)
(* significant byte first.  "unsigned int" is UIntBits wide: TLC's         *)
(* integers stop at 2^31 - 1, so the 32 bits of the program are modelled   *)
(* by 20, the least width that still holds the value 999999 the program    *)
(* uses as a marker; "long" is wider than every sum the model forms.       *)
(***************************************************************************)
EXTENDS Integers, Sequences, FiniteSets, TLC

(***************************************************************************)
(* Generic helpers.                                                        *)
(***************************************************************************)
At(s, i) == s[i + 1]

Pow2(n) == 2 ^ n

Min(a, b) == IF a <= b THEN a ELSE b

Take(s, n) == SubSeq(s, 1, Min(n, Len(s)))

Drop(s, n) == SubSeq(s, n + 1, Len(s))

Zeros(n) == [i \in 1..n |-> 0]

\* s with the bytes of t laid over it from C index i on (memcpy / fread into
\* s + i); s is never lengthened.
Overlay(s, i, t) ==
    IF t = <<>> \/ i >= Len(s) THEN s
    ELSE LET n == Min(Len(t), Len(s) - i)
         IN  SubSeq(s, 1, i) \o SubSeq(t, 1, n) \o SubSeq(s, i + n + 1, Len(s))

RECURSIVE Concat(_)
Concat(ss) == IF ss = <<>> THEN <<>> ELSE Head(ss) \o Concat(Tail(ss))

Reverse(s) == [i \in 1..Len(s) |-> s[Len(s) + 1 - i]]

(***************************************************************************)
(* data_conv.c: conversions between host integers and the byte stream.     *)
(* HostWord is the unsigned integer a host of the given byte order reads   *)
(* from the bytes b; the functions reorder bytes around it.                *)
(***************************************************************************)
UIntBits == 20

UIntMod == Pow2(UIntBits)

\* IS_BIG_ENDIAN of the host the run is modelled on.
HostBigEndian == FALSE

BEValue(b) ==
    LET RECURSIVE V(_, _)
        V(i, acc) == IF i > Len(b) THEN acc ELSE V(i + 1, acc * 256 + b[i])
    IN  V(1, 0)

HostWord(be, b) == IF be THEN BEValue(b) ELSE BEValue(Reverse(b))

\* The bytes of host integer n of w bytes, in memory order.
HostBytes(be, n, w) ==
    LET big == [i \in 1..w |-> (n \div Pow2(8 * (w - i))) % 256]
    IN  IF be THEN big ELSE Reverse(big)

conv_ui32(be, ptr) ==
    IF be THEN HostWord(be, SubSeq(ptr, 1, 4))
    ELSE LET intbuff == [j \in 1..4 |-> ptr[5 - j]]
         IN  HostWord(be, intbuff)

conv_ui24(be, ptr, highbyte) ==
    IF be THEN HostWord(be, <<highbyte>> \o SubSeq(ptr, 1, 3))
    ELSE LET intbuff == <<ptr[3], ptr[2], ptr[1], highbyte>>
         IN  HostWord(be, intbuff)

conv_ui16(be, ptr) ==
    IF be THEN HostWord(be, SubSeq(ptr, 1, 2))
    ELSE HostWord(be, <<ptr[2], ptr[1]>>)

format_ui32(be, number) ==
    LET mem == HostBytes(be, number, 4)
    IN  IF be THEN mem ELSE <<mem[4], mem[3], mem[2], mem[1]>>

\* The three low bytes and a fourth that does not carry the high byte.
format_ui24_low(be, number) == HostBytes(TRUE, number % Pow2(24), 3) \o <<0>>

\* Four bytes: the three low bytes, then the high byte.
format_ui24(be, number) ==
    LET mem == HostBytes(be, number, 4)
    IN  IF be THEN <<mem[2], mem[3], mem[4], mem[1]>>
        ELSE <<mem[3], mem[2], mem[1], mem[4]>>

format_ui16(be, number) ==
    LET mem == HostBytes(be, number, 2)
    IN  IF be THEN mem ELSE <<mem[2], mem[1]>>

\* A double is modelled by its big-endian pattern, so the swap into host
\* order and the reading back as a double cancel.
conv_double(ptr) == SubSeq(ptr, 1, 8)

format_double(number) == number

(***************************************************************************)
(* IEEE-754 patterns of the doubles the program forms itself: (double)n    *)
(* for an integer n >= 0 and n / 1000 (round to nearest, ties to even).    *)
(***************************************************************************)
RECURSIVE Log2Floor(_, _)
\* the e with d * 2^e <= n < d * 2^(e+1), for n >= d > 0
Log2Floor(n, d) == IF n < 2 * d THEN 0 ELSE 1 + Log2Floor(n, 2 * d)

RECURSIVE Log2Neg(_, _)
\* the k > 0 with d <= n * 2^k < 2 * d, for 0 < n < d
Log2Neg(n, d) == IF 2 * n >= d THEN 1 ELSE 1 + Log2Neg(2 * n, d)

RECURSIVE FracBits(_, _, _)
FracBits(r, d, k) ==
    IF k = 0 THEN <<>>
    ELSE IF 2 * r >= d THEN <<1>> \o FracBits(2 * r - d, d, k - 1)
         ELSE <<0>> \o FracBits(2 * r, d, k - 1)

RECURSIVE FracRem(_, _, _)
FracRem(r, d, k) ==
    IF k = 0 THEN r
    ELSE IF 2 * r >= d THEN FracRem(2 * r - d, d, k - 1)
         ELSE FracRem(2 * r, d, k - 1)

RECURSIVE BitsInc(_)
\* the bit string plus one, same length (all ones wrap to all zeros)
BitsInc(bits) ==
    IF bits = <<>> THEN <<>>
    ELSE LET n == Len(bits)
         IN  IF bits[n] = 0 THEN SubSeq(bits, 1, n - 1) \o <<1>>
             ELSE BitsInc(SubSeq(bits, 1, n - 1)) \o <<0>>

IntBits(n, w) == [i \in 1..w |-> (n \div Pow2(w - i)) % 2]

BitsValue(bits) ==
    LET RECURSIVE V(_, _)
        V(i, acc) == IF i > Len(bits) THEN acc ELSE V(i + 1, acc * 2 + bits[i])
    IN  V(1, 0)

\* The pattern of the double nearest to num / den (num >= 0, den > 0), in
\* steps: the exponent e, the scaling to 1 <= n1 / d1 < 2, the 52 fraction
\* bits and the remainder, the rounding (to nearest, ties to even), the bytes.
DoublePack(m, e1) ==
    [i \in 1..8 |->
        BitsValue(SubSeq(<<0>> \o IntBits(1023 + e1, 11) \o m, 8 * i - 7, 8 * i))]

DoubleCarry(m, up, e) == DoublePack(m, IF up /\ m = Zeros(52) THEN e + 1 ELSE e)

DoubleRounded(frac, up, e) == DoubleCarry(IF up THEN BitsInc(frac) ELSE frac, up, e)

DoubleRound(frac, rem, d1, e) ==
    DoubleRounded(frac, 2 * rem > d1 \/ (2 * rem = d1 /\ frac[52] = 1), e)

DoubleScaled(n1, d1, e) ==
    DoubleRound(FracBits(n1 - d1, d1, 52), FracRem(n1 - d1, d1, 52), d1, e)

DoubleNormal(num, den, e) ==
    DoubleScaled(IF e >= 0 THEN num ELSE num * Pow2(0 - e),
                 IF e >= 0 THEN den * Pow2(e) ELSE den, e)

DoubleOfRatio(num, den) ==
    IF num = 0 THEN Zeros(8)
    ELSE DoubleNormal(num, den,
             IF num >= den THEN Log2Floor(num, den) ELSE 0 - Log2Neg(num, den))

DoubleOfInt(n) == DoubleOfRatio(n, 1)

\* -1.0, the value parse_number returns for "no number".
DoubleMinusOne == <<191, 240, 0, 0, 0, 0, 0, 0>>

\* The sign, exponent and fraction bits of a pattern.
DoubleBits(d) == Concat([i \in 1..8 |-> IntBits(d[i], 8)])

DoubleExp(d) == BitsValue(SubSeq(DoubleBits(d), 2, 12)) - 1023

\* The integer part of |d| for |d| < 2^31 (the truncation of a C cast).
DoubleTrunc(d) ==
    LET e == DoubleExp(d)
    IN  IF e < 0 THEN 0
        ELSE BitsValue(<<1>> \o SubSeq(DoubleBits(d), 13, 12 + e))

DoubleIsInt(d) ==
    LET e == DoubleExp(d)
    IN  \/ d = Zeros(8)
        \/ /\ e >= 0 /\ e <= 30
           /\ \A i \in (13 + e)..64 : DoubleBits(d)[i] = 0

\* (char)d on the modelled host: exact when the value fits a char, else the
\* low byte of the truncated integer, taken as signed.
DoubleToChar(d) ==
    LET e   == DoubleExp(d)
        mag == IF e > 30 THEN 0 ELSE DoubleTrunc(d)
        v   == IF DoubleBits(d)[1] = 1 THEN 0 - mag ELSE mag
        low == v % 256
    IN  IF low >= 128 THEN low - 256 ELSE low

DoubleNaN == <<127, 248, 0, 0, 0, 0, 0, 0>>

\* d / 1000, exact on the integers 0 .. 2^31 - 1, which are the dates the
\* inputs of the model hold.
DoubleDiv1000(d) ==
    IF DoubleIsInt(d) /\ DoubleBits(d)[1] = 0
    THEN DoubleOfRatio(DoubleTrunc(d), 1000)
    ELSE DoubleNaN

(***************************************************************************)
(* metadata.c: names, the Metadata Record, the placeholder packet.         *)
(***************************************************************************)
S_onMetaData == <<111, 110, 77, 101, 116, 97, 68, 97, 116, 97>>

S_metadatacreator ==
    <<109, 101, 116, 97, 100, 97, 116, 97, 99, 114, 101, 97, 116, 111, 114>>

\* PROG_NAME " v" PROG_VERSION
S_creator == <<102, 108, 118, 106, 111, 105, 110, 32, 118, 48, 46, 57, 50>>

\* The ten fields with a recorded offset, in the order they are written.
Fields ==
    << "duration", "width", "height", "framerate", "videocodecid",
       "audiosamplerate", "audiosamplesize", "stereo", "audiocodecid",
       "filesize" >>

FieldSet == {Fields[i] : i \in 1..Len(Fields)}

NameOf(f) ==
    CASE f = "duration"        -> <<100, 117, 114, 97, 116, 105, 111, 110>>
      [] f = "width"           -> <<119, 105, 100, 116, 104>>
      [] f = "height"          -> <<104, 101, 105, 103, 104, 116>>
      [] f = "framerate"       -> <<102, 114, 97, 109, 101, 114, 97, 116, 101>>
      [] f = "videocodecid"    ->
            <<118, 105, 100, 101, 111, 99, 111, 100, 101, 99, 105, 100>>
      [] f = "audiosamplerate" ->
            <<97, 117, 100, 105, 111, 115, 97, 109, 112, 108, 101, 114, 97, 116, 101>>
      [] f = "audiosamplesize" ->
            <<97, 117, 100, 105, 111, 115, 97, 109, 112, 108, 101, 115, 105, 122, 101>>
      [] f = "stereo"          -> <<115, 116, 101, 114, 101, 111>>
      [] f = "audiocodecid"    ->
            <<97, 117, 100, 105, 111, 99, 111, 100, 101, 99, 105, 100>>
      [] f = "filesize"        -> <<102, 105, 108, 101, 115, 105, 122, 101>>

\* struct FLVmetadata, zero-initialised: stereo is a char, the rest doubles.
MetaZero ==
    [val |-> [f \in FieldSet |-> IF f = "stereo" THEN 0 ELSE Zeros(8)],
     ofs |-> [f \in FieldSet |-> 0]]

put_string(string) == format_ui16(HostBigEndian, Len(string) % 65536) \o string

put_double(number) == <<0>> \o format_double(number)

put_boolean(value) == <<1, value % 256>>

\* What put_double / put_boolean write for field f holding v.
PutField(f, v) == IF f = "stereo" THEN put_boolean(v) ELSE put_double(v)

FieldLen(f) == IF f = "stereo" THEN 2 ELSE 9

\* The pairs of generate_metadata_packet: tmp is the temporary file so far,
\* ofs the offsets saved so far.
RECURSIVE GenFields(_, _, _, _)
GenFields(i, tmp, ofs, currpos) ==
    IF i > Len(Fields) THEN [tmp |-> tmp, ofs |-> ofs]
    ELSE LET f    == Fields[i]
             tmp1 == tmp \o put_string(NameOf(f))
             ofs1 == [ofs EXCEPT ![f] = currpos + Len(tmp1)]
         IN  GenFields(i + 1, tmp1 \o PutField(f, IF f = "stereo" THEN 0 ELSE Zeros(8)),
                       ofs1, currpos)

\* fdpos is ftell(fd).  Yields the packet and the saved offsets.
generate_metadata_packet(fdpos) ==
    LET variable_end == <<0, 0, 9>>
        currpos == fdpos + 11
        tmp0 == <<2>> \o put_string(S_onMetaData) \o <<8>>
                    \o format_ui32(HostBigEndian, 11)
        g    == GenFields(1, tmp0, MetaZero.ofs, currpos)
        data == g.tmp \o put_string(S_metadatacreator) \o <<2>>
                    \o put_string(S_creator) \o variable_end
    IN  [packet |-> [type |-> 18, datasize |-> Len(data), timestamp |-> 0,
                     streamid |-> 0, data |-> data, backptr |-> Len(data) + 11,
                     rid |-> 0, rfile |-> 0, kind |-> "meta", h |-> <<>>,
                     own |-> data, kf |-> TRUE],
         ofs |-> g.ofs]

\* A write without the fseek: the bytes go to the end of the file.
FileWriteAtEnd(file, pos, bytes) == file \o bytes

\* fseek(fd, pos, SEEK_SET) and a write of bytes: the file grows only if the
\* write runs past its end.
FileWrite(file, pos, bytes) ==
    IF pos + Len(bytes) <= Len(file) THEN Overlay(file, pos, bytes)
    ELSE Take(file, pos) \o bytes

RECURSIVE PatchFields(_, _, _)
PatchFields(i, file, meta) ==
    IF i > Len(Fields) THEN file
    ELSE LET f == Fields[i]
         IN  PatchFields(i + 1, FileWrite(file, meta.ofs[f], PutField(f, meta.val[f])),
                         meta)

\* file is the output, all of it written so far (ftell(fd) is its length).
\* Yields the Metadata Record and the patched file.
write_metadata(file, meta, timestamp) ==
    LET m1 == [meta EXCEPT !.val["duration"] = DoubleOfRatio(timestamp, 1000),
                           !.val["filesize"] = DoubleOfInt(Len(file))]
    IN  [meta |-> m1, file |-> PatchFields(1, file, m1)]

(***************************************************************************)
(* metadata.c: the decoder of script data.  mem is the memory behind       *)
(* packet->data (all that is allocated, not only datasize bytes) and pos   *)
(* an index into it.  A read at or past Len(mem) leaves the allocation:    *)
(* the decoder state then carries fault = TRUE and decoding stops.         *)
(***************************************************************************)
\* A C string: the bytes before the first 0.
RECURSIVE CStr(_)
CStr(s) == IF s = <<>> \/ Head(s) = 0 THEN <<>> ELSE <<Head(s)>> \o CStr(Tail(s))

InMem(mem, pos, n) == pos >= 0 /\ pos + n <= Len(mem)

Bytes(mem, pos, n) == SubSeq(mem, pos + 1, pos + n)

\* char buff[1024] of the callers of parse_script_string
NameBuffLen == 1024

\* The copy without the move of pos past the string.
parse_script_string_stay(mem, pos, string_length, buff) ==
    [pos |-> pos,
     buff |-> IF buff /\ InMem(mem, pos, string_length)
              THEN CStr(Bytes(mem, pos, string_length)) ELSE <<>>,
     fault |-> FALSE]

\* Yields the position after the string, the string copied to buff (a C
\* string) when buff is not NULL, and whether the copy left the allocation
\* or overran buff.
parse_script_string(mem, pos, string_length, buff) ==
    IF buff /\ (~InMem(mem, pos, string_length) \/ string_length >= NameBuffLen)
    THEN [pos |-> pos, buff |-> <<>>, fault |-> TRUE]
    ELSE [pos |-> pos + string_length,
          buff |-> IF buff THEN CStr(Bytes(mem, pos, string_length)) ELSE <<>>,
          fault |-> FALSE]

\* The store without the test for -1.
add_meta_item_any(meta, name, value) ==
    IF \E f \in FieldSet \ {"duration", "filesize"} : NameOf(f) = name
    THEN LET f == CHOOSE g \in FieldSet \ {"duration", "filesize"} : NameOf(g) = name
         IN  [meta EXCEPT !.val[f] =
                 IF f = "stereo" THEN DoubleToChar(value) ELSE value]
    ELSE meta

add_meta_item(meta, name, value) ==
    IF value = DoubleMinusOne THEN meta
    ELSE IF \E f \in FieldSet \ {"duration", "filesize"} : NameOf(f) = name
         THEN LET f == CHOOSE g \in FieldSet \ {"duration", "filesize"} : NameOf(g) = name
              IN  [meta EXCEPT !.val[f] =
                      IF f = "stereo" THEN DoubleToChar(value) ELSE value]
         ELSE meta

Faulted(st) == [st EXCEPT !.fault = TRUE]

\* (int)conv_ui32: the model's inputs hold no count of 2^31 or more.
ArrayLength(mem, pos) == conv_ui32(HostBigEndian, Bytes(mem, pos, 4))

RECURSIVE parse_number(_, _)
RECURSIVE parse_script_object(_, _)
RECURSIVE ParsePair(_, _)
RECURSIVE EcmaItems(_, _, _)
RECURSIVE StrictItems(_, _, _)

\* A name, its value, add_meta_item: the body shared by the loops of
\* extract_metadata, parse_script_object and the ECMA array.  st is
\* [pos, meta, fault, value, name, items]; items is history: the name and
\* the value of each call of add_meta_item, in order.
ParsePair(mem, st) ==
    IF ~InMem(mem, st.pos, 2) THEN Faulted(st)
    ELSE LET len == conv_ui16(HostBigEndian, Bytes(mem, st.pos, 2))
             str == parse_script_string(mem, st.pos + 2, len, TRUE)
         IN  IF str.fault THEN Faulted(st)
             ELSE LET r == parse_number(mem, [st EXCEPT !.pos = str.pos])
                  IN  IF r.fault THEN [r EXCEPT !.name = str.buff]
                      ELSE [r EXCEPT !.meta = add_meta_item(r.meta, str.buff, r.value),
                                     !.name = str.buff,
                                     !.items = Append(r.items, <<str.buff, r.value>>)]

EcmaItems(mem, st, count) ==
    IF count <= 0 \/ st.fault THEN st
    ELSE EcmaItems(mem, ParsePair(mem, st), count - 1)

StrictItems(mem, st, count) ==
    IF count <= 0 \/ st.fault THEN st
    ELSE StrictItems(mem, parse_number(mem, st), count - 1)

parse_script_object(mem, st) ==
    IF ~InMem(mem, st.pos, 1) THEN Faulted(st)
    ELSE LET marker == At(mem, st.pos)
             p1 == IF marker # 2 THEN st.pos ELSE st.pos + 1
             r  == ParsePair(mem, [st EXCEPT !.pos = p1])
         IN  IF r.fault THEN r
             ELSE IF ~InMem(mem, r.pos, 3) THEN Faulted(r)
             ELSE IF Bytes(mem, r.pos, 3) = <<0, 0, 9>>
                  THEN [r EXCEPT !.pos = r.pos + 3]
                  ELSE r

\* Yields st with the position moved past the variable and value set to the
\* number extracted, or to -1.
parse_number(mem, st) ==
    IF ~InMem(mem, st.pos, 1) THEN Faulted(st)
    ELSE
    LET variable_type == At(mem, st.pos)
        pos == st.pos + 1
        s0  == [st EXCEPT !.pos = pos, !.value = DoubleMinusOne]
    IN  CASE variable_type = 0 ->
               IF ~InMem(mem, pos, 8) THEN Faulted(s0)
               ELSE [s0 EXCEPT !.value = conv_double(Bytes(mem, pos, 8)),
                               !.pos = pos + 8]
          [] variable_type = 1 ->
               IF ~InMem(mem, pos, 1) THEN Faulted(s0)
               ELSE [s0 EXCEPT !.value = DoubleOfInt(At(mem, pos)), !.pos = pos + 1]
          [] variable_type = 2 ->
               IF ~InMem(mem, pos, 2) THEN Faulted(s0)
               ELSE [s0 EXCEPT !.pos =
                        parse_script_string(mem, pos + 2,
                            conv_ui16(HostBigEndian, Bytes(mem, pos, 2)), FALSE).pos]
          [] variable_type = 3 ->
               LET r == parse_script_object(mem, s0)
               IN  [r EXCEPT !.value = DoubleMinusOne]
          [] variable_type = 7 ->
               IF ~InMem(mem, pos, 2) THEN Faulted(s0)
               ELSE [s0 EXCEPT !.value =
                                  DoubleOfInt(conv_ui16(HostBigEndian, Bytes(mem, pos, 2))),
                               !.pos = pos + 2]
          [] variable_type = 8 ->
               IF ~InMem(mem, pos, 4) THEN Faulted(s0)
               ELSE LET r == EcmaItems(mem, [s0 EXCEPT !.pos = pos + 4],
                                       ArrayLength(mem, pos))
                    IN  [r EXCEPT !.value = DoubleMinusOne]
          [] variable_type = 10 ->
               IF ~InMem(mem, pos, 4) THEN Faulted(s0)
               ELSE StrictItems(mem, [s0 EXCEPT !.pos = pos + 4], ArrayLength(mem, pos))
          [] variable_type = 11 ->
               IF ~InMem(mem, pos, 8) THEN Faulted(s0)
               ELSE [s0 EXCEPT !.value = DoubleDiv1000(conv_double(Bytes(mem, pos, 8))),
                               !.pos = pos + 10]
          [] variable_type = 12 ->
               IF ~InMem(mem, pos, 4) THEN Faulted(s0)
               ELSE [s0 EXCEPT !.pos =
                        parse_script_string(mem, pos + 2,
                            conv_ui32(HostBigEndian, Bytes(mem, pos, 4)), FALSE).pos]
          [] OTHER -> s0

\* The while loop of extract_metadata; the bound datasize - 6 is unsigned.
RECURSIVE ExtractLoop(_, _, _, _)
ExtractLoop(mem, datasize, st, found) ==
    IF st.fault \/ ~(st.pos <= (datasize - 6) % UIntMod)
    THEN [found |-> found, meta |-> st.meta, fault |-> st.fault, pos |-> st.pos,
          items |-> st.items]
    ELSE LET r == ParsePair(mem, st)
         IN  ExtractLoop(mem, datasize, r,
                         found \/ (~r.fault /\ r.name = S_onMetaData))

\* Yields found (the result), the Metadata Record, fault and the final
\* position.  The packet is of type 18 wherever this is used.
extract_metadata(mem, datasize, meta) ==
    LET st0 == [pos |-> 0, meta |-> meta, fault |-> FALSE,
                value |-> DoubleMinusOne, name |-> <<>>, items |-> <<>>]
    IN  IF ~InMem(mem, 0, 1)
        THEN [found |-> FALSE, meta |-> meta, fault |-> TRUE, pos |-> 0,
              items |-> <<>>]
        ELSE LET marker == At(mem, 0)
                 pos == IF marker # 2 THEN 0 ELSE 1
             IN  ExtractLoop(mem, datasize, [st0 EXCEPT !.pos = pos], FALSE)

(***************************************************************************)
(* flvjoin.c: the state of a run.                                          *)
(***************************************************************************)
VARIABLES
    pc,                       \* where main is: "main", "list" (between input
                              \* files), "loop" (inside append_file's loop),
                              \* "close", "done", "crashed", "failed" (exit(1))
    no_meta,                  \* option -n
    frame_interval,           \* option -f, in ms
    audio_bitrate,            \* option -b
    outfile,                  \* the bytes of the output file
    last_video_timestamp,
    last_audio_timestamp,
    last_packet_size,
    seq_header_pkt,           \* the cached Sequence Header; hasdata: data # NULL
    buff,                     \* append_file's static buff (its first 13 bytes)
    pdata,                    \* the memory behind packet.data: max_datasize bytes
    first_time,
    metadata_extracted,
    meta,                     \* struct FLVmetadata
    pktarray,                 \* buffer_packet's array, packets = Len(pktarray)
    file_start_timestamp,     \* the locals of the running append_file
    first_keyframe_timestamp,
    lastfile_video_timestamp,
    mark_in,
    mark_out,
    nfiles,                   \* input lines read so far
    ntags,                    \* passes of the loop so far, over all files
    last,                     \* history: the last pass of the loop
    keyseen,                  \* history: the file being read has shown a
                              \* video key frame to the Join Engine
    wlog,                     \* history: the calls of write_packet
    finalized,                \* history: calls of write_metadata
    sink,                     \* history: "ok", or the write to the output
                              \* (or its close) that failed
    msg,                      \* history: the error message of the last step
    fopened,                  \* history: the last fopen of an input succeeded
    cv                        \* a conversion of data_conv.c or metadata.c
                              \* applied on its own: input, bytes, result

vars ==
    << pc, no_meta, frame_interval, audio_bitrate, outfile,
       last_video_timestamp, last_audio_timestamp, last_packet_size,
       seq_header_pkt, buff, pdata, first_time, metadata_extracted, meta,
       pktarray, file_start_timestamp, first_keyframe_timestamp,
       lastfile_video_timestamp, mark_in, mark_out, nfiles, ntags, last,
       keyseen, wlog, finalized, sink, msg, fopened, cv >>

\* No conversion under way.
NoConv == [stage |-> "none"]

\* A step that prints no error message and leaves the conversions alone.
Calm == msg' = "none" /\ UNCHANGED <<sink, fopened, cv>>

\* file_start_timestamp while the start of the file is not known
NoStart == -999999

\* mark_out when the input line gives none: 99999 s
DefaultMarkOut == 99999000

\* malloc(0) of the modelled host returns a pointer, not NULL
MallocZeroIsNull == FALSE

FlvHeader == <<70, 76, 86, 1, 5, 0, 0, 0, 9, 0, 0, 0, 0>>

\* The header without the back-pointer that follows it.
write_flv_header_9(file) == file \o Take(FlvHeader, 9)

write_flv_header(file) == file \o FlvHeader

(***************************************************************************)
(* write_packet.  o is the output side of the state: the file, the three   *)
(* counters and the history of calls; cur is the number of the input file  *)
(* being read (history only).  A packet carries, for the history only:     *)
(* rid and rfile (the pass and the file that read it), kind ("meta": the   *)
(* blank metadata, "hdr": the cached Sequence Header, "pkt": any other),   *)
(* h and own (the header and payload bytes its reads returned) and kf (it  *)
(* is a video key frame by its own payload, or one came before it in its   *)
(* file).                                                                  *)
(***************************************************************************)
\* Drop any overlapping audio packets
Overlapping(type, timestamp, last_audio) == type = 8 /\ timestamp <= last_audio

NewTimestamp(timestamp, fst) == (timestamp + fst) % UIntMod

TagBytes(packet, timestamp) ==
    <<packet.type>>
        \o Take(format_ui24(HostBigEndian, packet.datasize), 3)
        \o format_ui24(HostBigEndian, timestamp)
        \o Take(format_ui24(HostBigEndian, packet.streamid), 3)
        \o Take(packet.data, packet.datasize)
        \o format_ui32(HostBigEndian, packet.backptr)

\* A dropped packet leaves its size in last_packet_size.
write_packet_sized(o, packet, fst, cur) ==
    LET timestamp == NewTimestamp(packet.timestamp, fst)
        entry == [rid |-> packet.rid, rfile |-> packet.rfile,
                  kind |-> packet.kind, h |-> packet.h, own |-> packet.own,
                  kf |-> packet.kf, type |-> packet.type, ts |-> timestamp,
                  src |-> packet.timestamp, off |-> fst, la |-> o.la,
                  wfile |-> cur, at |-> Len(o.file), size |-> packet.datasize]
    IN  IF Overlapping(packet.type, timestamp, o.la)
        THEN [o EXCEPT !.log = Append(@, entry @@ [ev |-> "drop"]),
                       !.lps = packet.datasize]
        ELSE [file |-> o.file \o TagBytes(packet, timestamp),
              lv   |-> IF packet.type = 9 THEN timestamp ELSE o.lv,
              la   |-> IF packet.type = 8 THEN timestamp ELSE o.la,
              lps  |-> packet.datasize,
              log  |-> Append(o.log, entry @@ [ev |-> "write"])]

write_packet(o, packet, fst, cur) ==
    LET timestamp == NewTimestamp(packet.timestamp, fst)
        entry == [rid |-> packet.rid, rfile |-> packet.rfile,
                  kind |-> packet.kind, h |-> packet.h, own |-> packet.own,
                  kf |-> packet.kf, type |-> packet.type, ts |-> timestamp,
                  src |-> packet.timestamp, off |-> fst, la |-> o.la,
                  wfile |-> cur, at |-> Len(o.file), size |-> packet.datasize]
    IN  IF Overlapping(packet.type, timestamp, o.la)
        THEN [o EXCEPT !.log = Append(@, entry @@ [ev |-> "drop"])]
        ELSE [file |-> o.file \o TagBytes(packet, timestamp),
              lv   |-> IF packet.type = 9 THEN timestamp ELSE o.lv,
              la   |-> IF packet.type = 8 THEN timestamp ELSE o.la,
              lps  |-> packet.datasize,
              log  |-> Append(o.log, entry @@ [ev |-> "write"])]

(***************************************************************************)
(* buffer_packet.  b is [o, seq, arr]: the output side, seq_header_pkt and *)
(* pktarray.                                                               *)
(***************************************************************************)
\* The loop with the header written before the first packet of any type.
RECURSIVE FlushLoopHeaderFirst(_, _, _, _)
FlushLoopHeaderFirst(i, b, fst, cur) ==
    IF i > Len(b.arr) THEN [b EXCEPT !.arr = <<>>]
    ELSE LET p == b.arr[i]
         IN  IF b.seq.hasdata
             THEN LET sh == [b.seq EXCEPT !.timestamp = p.timestamp]
                      o1 == write_packet(b.o, sh, fst, cur)
                      o2 == write_packet(o1, p, fst, cur)
                  IN  FlushLoopHeaderFirst(i + 1,
                          [b EXCEPT !.o = o2,
                                    !.seq = [sh EXCEPT !.hasdata = FALSE,
                                                       !.data = <<>>,
                                                       !.timestamp =
                                                           NewTimestamp(p.timestamp, fst)]],
                          fst, cur)
             ELSE FlushLoopHeaderFirst(i + 1,
                      [b EXCEPT !.o = write_packet(b.o, p, fst, cur)], fst, cur)

RECURSIVE FlushLoop(_, _, _, _)
FlushLoop(i, b, fst, cur) ==
    IF i > Len(b.arr) THEN [b EXCEPT !.arr = <<>>]
    ELSE LET p == b.arr[i]
         IN  IF b.seq.hasdata /\ p.type = 9
             THEN \* Write sequence header immediately before first video packet
                  LET sh == [b.seq EXCEPT !.timestamp = p.timestamp]
                      o1 == write_packet(b.o, sh, fst, cur)
                      o2 == write_packet(o1, p, fst, cur)
                  IN  FlushLoop(i + 1,
                          [b EXCEPT !.o = o2,
                                    !.seq = [sh EXCEPT !.hasdata = FALSE,
                                                       !.data = <<>>,
                                                       !.timestamp =
                                                           NewTimestamp(p.timestamp, fst)]],
                          fst, cur)
             ELSE FlushLoop(i + 1, [b EXCEPT !.o = write_packet(b.o, p, fst, cur)],
                            fst, cur)

\* The packet put in front of the array, not behind it.
buffer_packet_front(b, packet, fst, flush, cur) ==
    LET b1 == [b EXCEPT !.arr = <<packet>> \o @]
    IN  IF flush THEN FlushLoop(1, b1, fst, cur) ELSE b1

buffer_packet(b, packet, fst, flush, cur) ==
    LET b1 == [b EXCEPT !.arr = Append(@, packet)]
    IN  IF flush THEN FlushLoop(1, b1, fst, cur) ELSE b1

(***************************************************************************)
(* The inputs.  A tag of an input file reaches append_file as the results  *)
(* of three reads: h (at most 11 bytes of tag header), p (at most datasize *)
(* bytes of payload) and b (at most 4 bytes of back-pointer).  A read is   *)
(* short only at the end of the file, and every read after it is empty.    *)
(***************************************************************************)
BE(n, w) == [i \in 1..w |-> (n \div Pow2(8 * (w - i))) % 256]

TagHeader(type, datasize, ts, sid) ==
    <<type>> \o BE(datasize, 3) \o BE(ts % Pow2(24), 3) \o <<ts \div Pow2(24)>>
        \o BE(sid, 3)

Tag(type, ts, sid, payload, backptr) ==
    [h |-> TagHeader(type, Len(payload), ts, sid), p |-> payload,
     b |-> BE(backptr, 4)]

\* The file ends k bytes into the payload of tag c.
Cut(c, k) == [h |-> c.h, p |-> Take(c.p, k), b |-> <<>>]

EndOfFile == [h |-> <<>>, p |-> <<>>, b |-> <<>>]

\* Source timestamps: 0 and a later one.
Late == 100

ScriptOnMetaData ==
    <<2>> \o put_string(S_onMetaData) \o <<8>> \o BE(1, 4)
        \o put_string(NameOf("width")) \o put_double(DoubleOfInt(1)) \o <<0, 0, 9>>

AudioTags == { Tag(8, 0, 0, <<175>>, 12), Tag(8, Late, 0, <<175, 1>>, 13) }

KeyTags == { Tag(9, 0, 0, <<23, 1>>, 13), Tag(9, Late, 0, <<23, 1, 7>>, 14) }

InterTags == { Tag(9, 0, 1, <<39, 1>>, 0) }

SeqHeaderTags == { Tag(9, 0, 0, <<23, 0>>, 13) }

ScriptTags == { Tag(18, 0, 0, ScriptOnMetaData, Len(ScriptOnMetaData) + 11) }

OtherTags == { Tag(15, 0, 0, <<>>, 11), Tag(9, 0, 0, <<>>, 11) }

CutTags == { Cut(Tag(8, Late, 0, <<175, 1>>, 13), 0), Cut(Tag(9, 0, 0, <<23, 1>>, 13), 1) }

\* A key frame whose timestamp is the negation of the value that marks the
\* file start as not yet known.
SentinelTags == { Tag(9, 0 - NoStart, 0, <<23, 1>>, 13) }

\* The file ends inside a tag header: the read returns its first 4 bytes.
ShortTags == { [h |-> <<8, 0, 0, 1>>, p |-> <<>>, b |-> <<>>] }

Chunks ==
    AudioTags \cup KeyTags \cup InterTags \cup SeqHeaderTags \cup ScriptTags
        \cup OtherTags \cup CutTags \cup ShortTags \cup SentinelTags

\* What a read outside what was written to memory can yield.
GarbageBytes == {0, 23}

\* The marks of an input line, in ms.
Marks == { <<0, DefaultMarkOut>>, <<50, DefaultMarkOut>>, <<0, Late>> }

FrameIntervals == {100}

AudioBitrates == {32000}

MaxFiles == 2

MaxTags == 3

(***************************************************************************)
(* append_file: one pass of the loop that reads a tag.                     *)
(***************************************************************************)
\* Calculate starting timestamp based on video framerate
FileStart(lastfile_video, interval, timestamp) ==
    (lastfile_video + interval - timestamp) % UIntMod

\* The first file starts at its own timestamps.
FirstFileStartZero(first_keyframe) == 0

FirstFileStart(first_keyframe) == 0 - first_keyframe

\* The test without its mark-out half.
TrimmedBeforeInOnly(timestamp, in, out) == timestamp < in

Trimmed(timestamp, in, out) == timestamp < in \/ timestamp >= out

IsSeqHeader(b0, b1) == b0 % 16 = 7 /\ b1 = 0

\* The test without the option -n.
ShouldExtractDespiteFlag(extracted, nometa) == ~extracted

\* The test without the memory of an earlier onMetaData.
ShouldExtractAgain(extracted, nometa) == ~nometa

\* Attempt to extract metadata from this packet
ShouldExtract(extracted, nometa) == ~extracted /\ ~nometa

IsKeyFrame(type, b0) == type = 8 \/ (b0 \div 16) = 1

\* History only: the reads c returned a whole video tag whose own first
\* payload byte marks a key frame.
OwnKey(c) ==
    /\ Len(c.h) = 11 /\ c.h[1] = 9
    /\ Len(c.p) >= 1 /\ c.p[1] \div 16 = 1

Out == [file |-> outfile, lv |-> last_video_timestamp,
        la |-> last_audio_timestamp, lps |-> last_packet_size, log |-> wlog]

\* The state after one pass for the reads c; g is the byte found where
\* memory was never written, kill whether a read outside the allocation
\* ends the process.
Iterate(c, g, kill) ==
    LET buff1     == Overlay(buff, 0, c.h)
        type      == At(buff1, 0)
        datasize  == conv_ui24(HostBigEndian, Bytes(buff1, 1, 3), 0)
        timestamp == conv_ui24(HostBigEndian, Bytes(buff1, 4, 3), At(buff1, 7)) % UIntMod
        streamid  == conv_ui24(HostBigEndian, Bytes(buff1, 8, 3), 0)
        grown     == IF datasize > Len(pdata)
                     THEN pdata \o [i \in 1..(datasize - Len(pdata)) |-> g]
                     ELSE pdata
        mem       == Overlay(grown, 0, c.p)
        buff2     == Overlay(buff1, 0, c.b)
        backptr   == conv_ui32(HostBigEndian, Bytes(buff2, 0, 4))
        packet    == [type |-> type, datasize |-> datasize, timestamp |-> timestamp,
                      streamid |-> streamid, data |-> Take(mem, datasize),
                      backptr |-> backptr, rid |-> ntags + 1, rfile |-> nfiles,
                      kind |-> "pkt", h |-> c.h, own |-> c.p,
                      kf |-> keyseen \/ OwnKey(c)]
        eof       == Len(c.h) < 11 \/ Len(c.p) < datasize \/ Len(c.b) < 4
        null      == mem = <<>>
        b0        == IF null THEN 0 ELSE At(mem, 0)
        b1        == IF Len(mem) >= 2 THEN At(mem, 1) ELSE g
        same      == [o |-> Out, seq |-> seq_header_pkt, arr |-> pktarray,
                      first_time |-> first_time,
                      metadata_extracted |-> metadata_extracted, meta |-> meta,
                      fst |-> file_start_timestamp,
                      fkt |-> first_keyframe_timestamp,
                      pdata |-> mem, buff |-> buff2, packet |-> packet,
                      eof |-> eof, crashed |-> FALSE, key |-> FALSE,
                      fate |-> "none"]
        crash     == [same EXCEPT !.crashed = TRUE, !.fate = "crash"]
        b         == [o |-> Out, seq |-> seq_header_pkt, arr |-> pktarray]
    IN  IF type = 18 THEN
            IF ShouldExtract(metadata_extracted, no_meta)
            THEN LET e == extract_metadata(mem, datasize, meta)
                 IN  IF e.fault /\ kill THEN crash
                     ELSE [same EXCEPT !.meta = e.meta,
                                       !.metadata_extracted = e.found,
                                       !.fate = "decoded"]
            ELSE [same EXCEPT !.fate = "script"]
        ELSE IF ~seq_header_pkt.hasdata /\ type = 9 /\ null THEN crash
        ELSE IF ~seq_header_pkt.hasdata /\ type = 9 /\ IsSeqHeader(b0, b1)
        THEN [same EXCEPT !.seq = [packet EXCEPT !.kind = "hdr"] @@
                                  [hasdata |-> ~(datasize = 0 /\ MallocZeroIsNull)],
                          !.fate = "seqhdr"]
        ELSE IF Trimmed(timestamp, mark_in, mark_out) \/ (type # 8 /\ type # 9)
        THEN [same EXCEPT !.fate = "skipped"]
        ELSE IF type = 9 /\ null THEN crash
        ELSE
        LET key_frame == IsKeyFrame(type, b0)
            fkt == IF first_keyframe_timestamp = -1 /\ key_frame
                   THEN timestamp ELSE first_keyframe_timestamp
            s1  == [same EXCEPT !.fkt = fkt, !.key = key_frame]
        IN  IF file_start_timestamp = NoStart
            THEN IF type = 9
                 THEN IF key_frame
                      THEN LET fst == IF first_time THEN FirstFileStart(fkt)
                                      ELSE FileStart(lastfile_video_timestamp,
                                                     frame_interval, timestamp)
                               r   == buffer_packet(b, packet, fst, TRUE, nfiles)
                           IN  [s1 EXCEPT !.fst = fst, !.first_time = FALSE,
                                          !.o = r.o, !.seq = r.seq, !.arr = r.arr,
                                          !.fate = "keyframe"]
                      ELSE [s1 EXCEPT !.fate = "discarded"]
                 ELSE LET r == buffer_packet(b, packet, -1, FALSE, nfiles)
                      IN  [s1 EXCEPT !.arr = r.arr, !.fate = "buffered"]
            ELSE [s1 EXCEPT !.o = write_packet(Out, packet, file_start_timestamp, nfiles),
                            !.fate = "forwarded"]

(***************************************************************************)
(* main and append_file as steps.                                          *)
(***************************************************************************)
NoPacket == [type |-> 0, datasize |-> 0, timestamp |-> 0, streamid |-> 0,
             data |-> <<>>, backptr |-> 0, rid |-> 0, rfile |-> 0,
             kind |-> "pkt", h |-> <<>>, own |-> <<>>, kf |-> FALSE,
             hasdata |-> FALSE]

NoPass == [file |-> 0, c |-> EndOfFile, pkt |-> NoPacket, fate |-> "none",
           key |-> FALSE]

\* The state of the process when main starts.
Boot ==
    /\ pc = "main"
    /\ no_meta \in BOOLEAN
    /\ frame_interval \in FrameIntervals
    /\ audio_bitrate \in AudioBitrates
    /\ outfile = <<>>
    /\ last_video_timestamp = 0
    /\ last_audio_timestamp = -1
    /\ last_packet_size = 0
    /\ seq_header_pkt = NoPacket
    /\ buff = <<>>
    /\ pdata = <<>>
    /\ first_time = TRUE
    /\ metadata_extracted = FALSE
    /\ meta = MetaZero
    /\ pktarray = <<>>
    /\ file_start_timestamp = NoStart
    /\ first_keyframe_timestamp = -1
    /\ lastfile_video_timestamp = 0
    /\ mark_in = 0
    /\ mark_out = 0
    /\ nfiles = 0
    /\ ntags = 0
    /\ last = NoPass
    /\ keyseen = FALSE
    /\ wlog = <<>>
    /\ finalized = 0
    /\ sink = "ok"
    /\ msg = "none"
    /\ fopened = FALSE

Init == Boot /\ cv = NoConv

\* main: the output is opened, the header and the blank metadata written.
Start ==
    /\ pc = "main"
    /\ pc' = "list"
    /\ LET file == write_flv_header(outfile)
           g    == generate_metadata_packet(Len(file))
           o    == write_packet([Out EXCEPT !.file = file], g.packet, 0, 0)
       IN  IF no_meta
           THEN /\ outfile' = file
                /\ UNCHANGED <<last_video_timestamp, last_audio_timestamp,
                               last_packet_size, wlog, meta>>
           ELSE /\ outfile' = o.file
                /\ last_video_timestamp' = o.lv
                /\ last_audio_timestamp' = o.la
                /\ last_packet_size' = o.lps
                /\ wlog' = o.log
                /\ meta' = [meta EXCEPT !.ofs = g.ofs]
    /\ UNCHANGED <<no_meta, frame_interval, audio_bitrate, seq_header_pkt, buff,
                   pdata, first_time, metadata_extracted, pktarray,
                   file_start_timestamp, first_keyframe_timestamp,
                   lastfile_video_timestamp, mark_in, mark_out, nfiles, ntags,
                   last, keyseen, finalized>>
    /\ Calm

\* A failed fopen that ends the run with exit(1) instead of returning.
OpenFailsAborts ==
    /\ pc = "list"
    /\ nfiles < MaxFiles
    /\ nfiles' = nfiles + 1
    /\ pc' = "failed"
    /\ msg' = "open"
    /\ fopened' = FALSE
    /\ UNCHANGED <<no_meta, frame_interval, audio_bitrate, outfile,
                   last_video_timestamp, last_audio_timestamp, last_packet_size,
                   seq_header_pkt, buff, pdata, first_time, metadata_extracted,
                   meta, pktarray, file_start_timestamp,
                   first_keyframe_timestamp, lastfile_video_timestamp, mark_in,
                   mark_out, ntags, last, keyseen, wlog, finalized, sink, cv>>

\* append_file up to its return for a file that cannot be opened (a line
\* without marks).
OpenFails ==
    /\ pc = "list"
    /\ nfiles < MaxFiles
    /\ nfiles' = nfiles + 1
    /\ file_start_timestamp' = NoStart
    /\ first_keyframe_timestamp' = -1
    /\ lastfile_video_timestamp' = last_video_timestamp
    /\ mark_in' = 0
    /\ mark_out' = DefaultMarkOut
    /\ keyseen' = FALSE
    /\ UNCHANGED <<pc, no_meta, frame_interval, audio_bitrate, outfile,
                   last_video_timestamp, last_audio_timestamp, last_packet_size,
                   seq_header_pkt, buff, pdata, first_time, metadata_extracted,
                   meta, pktarray, ntags, last, wlog, finalized, sink, cv>>
    /\ msg' = "open"
    /\ fopened' = FALSE

\* The first 9 bytes of an input and, for a file with the signature, the
\* rest of its header and the first back-pointer.
Heads == { FlvHeader, <<70, 76, 86>> }

\* append_file up to its loop: a line of the list is read, the file opened
\* and its header skipped.
OpenFile ==
    /\ pc = "list"
    /\ nfiles < MaxFiles
    /\ nfiles' = nfiles + 1
    /\ file_start_timestamp' = NoStart
    /\ first_keyframe_timestamp' = -1
    /\ lastfile_video_timestamp' = last_video_timestamp
    /\ keyseen' = FALSE
    /\ \E m \in Marks, head \in Heads, g \in GarbageBytes :
          LET buff0 == IF buff = <<>> THEN [i \in 1..13 |-> g] ELSE buff
              first == Take(head, 9)
              buff1 == Overlay(buff0, 0, first)
              header_length == conv_ui32(HostBigEndian, Bytes(buff1, 5, 4))
          IN  /\ mark_in' = m[1]
              /\ mark_out' = m[2]
              /\ Len(head) < 9 => m = <<0, DefaultMarkOut>>
              /\ buff # <<>> \/ Len(head) >= 13 => g = 0
              /\ Len(first) = 9 => Take(first, 3) = <<70, 76, 86>> /\ header_length = 9
              /\ IF Len(first) # 9
                 THEN pc' = "list" /\ buff' = buff1 /\ msg' = "header"
                 ELSE /\ pc' = "loop"
                      /\ buff' = Overlay(buff1, 9, Drop(head, 9))
                      /\ msg' = "none"
    /\ UNCHANGED <<no_meta, frame_interval, audio_bitrate, outfile,
                   last_video_timestamp, last_audio_timestamp, last_packet_size,
                   seq_header_pkt, pdata, first_time, metadata_extracted, meta,
                   pktarray, ntags, last, wlog, finalized, sink, cv>>
    /\ fopened' = TRUE

\* The environment of a pass: the byte behind unwritten memory matters only
\* to a payload shorter than two bytes, the fate of a wild read only to
\* script data.
Envs(c) ==
    { e \in GarbageBytes \X BOOLEAN :
        /\ Len(c.p) >= 2 => e[1] = 0
        /\ At(c.h, 0) # 18 => e[2] }

\* One pass of append_file's loop, and the return of append_file when the
\* pass was the last.
ReadTag ==
    /\ pc = "loop"
    /\ \E c \in Chunks \cup {EndOfFile} :
          IF c.h = <<>>
          THEN /\ pc' = "list"
               /\ UNCHANGED <<outfile, last_video_timestamp, last_audio_timestamp,
                              last_packet_size, seq_header_pkt, buff, pdata,
                              first_time, metadata_extracted, meta, pktarray,
                              file_start_timestamp, first_keyframe_timestamp,
                              ntags, last, keyseen, wlog>>
          ELSE /\ ntags < MaxTags
               /\ \E e \in Envs(c) :
                     \E r \in {Iterate(c, e[1], e[2])} :
                         /\ pc' = IF r.crashed THEN "crashed"
                                  ELSE IF r.eof THEN "list" ELSE "loop"
                         /\ outfile' = r.o.file
                         /\ last_video_timestamp' = r.o.lv
                         /\ last_audio_timestamp' = r.o.la
                         /\ last_packet_size' = r.o.lps
                         /\ wlog' = r.o.log
                         /\ seq_header_pkt' = r.seq
                         /\ buff' = r.buff
                         /\ pdata' = r.pdata
                         /\ first_time' = r.first_time
                         /\ metadata_extracted' = r.metadata_extracted
                         /\ meta' = r.meta
                         /\ pktarray' = r.arr
                         /\ file_start_timestamp' = r.fst
                         /\ first_keyframe_timestamp' = r.fkt
                         /\ keyseen' = (keyseen \/ (OwnKey(c) /\ r.fate \in
                                         {"keyframe", "forwarded", "discarded"}))
                         /\ ntags' = ntags + 1
                         /\ last' = [file |-> nfiles, c |-> c, pkt |-> r.packet,
                                     fate |-> r.fate, key |-> r.key]
    /\ UNCHANGED <<no_meta, frame_interval, audio_bitrate,
                   lastfile_video_timestamp, mark_in, mark_out, nfiles,
                   finalized>>
    /\ Calm

\* (unsigned int)(0.5 + 1000.0 * last_packet_size * 8 / audio_bitrate)
TrailingMs(size, bitrate) == (16000 * size + bitrate) \div (2 * bitrate)

\* Determine file duration based on last timestamp and the duration of that packet
Duration(lv, la, lps, interval, bitrate) ==
    IF lv >= la THEN (lv + interval) % UIntMod
    ELSE (la + TrailingMs(lps, bitrate)) % UIntMod

\* main after the last line of the list: the metadata is written.
Finalize ==
    /\ pc = "list"
    /\ pc' = "close"
    /\ IF no_meta
       THEN UNCHANGED <<outfile, meta, finalized>>
       ELSE \E w \in {write_metadata(outfile, meta,
                         Duration(last_video_timestamp, last_audio_timestamp,
                                  last_packet_size, frame_interval, audio_bitrate))} :
                /\ outfile' = w.file
                /\ meta' = w.meta
                /\ finalized' = finalized + 1
    /\ UNCHANGED <<no_meta, frame_interval, audio_bitrate, last_video_timestamp,
                   last_audio_timestamp, last_packet_size, seq_header_pkt, buff,
                   pdata, first_time, metadata_extracted, pktarray,
                   file_start_timestamp, first_keyframe_timestamp,
                   lastfile_video_timestamp, mark_in, mark_out, nfiles, ntags,
                   last, keyseen, wlog>>
    /\ Calm

\* main: close_output and exit.
CloseOutput ==
    /\ pc = "close"
    /\ pc' = "done"
    /\ UNCHANGED <<no_meta, frame_interval, audio_bitrate, outfile,
                   last_video_timestamp, last_audio_timestamp, last_packet_size,
                   seq_header_pkt, buff, pdata, first_time, metadata_extracted,
                   meta, pktarray, file_start_timestamp,
                   first_keyframe_timestamp, lastfile_video_timestamp, mark_in,
                   mark_out, nfiles, ntags, last, keyseen, wlog, finalized>>
    /\ Calm

Next ==
    \/ Start
    \/ OpenFails
    \/ OpenFile
    \/ ReadTag
    \/ Finalize
    \/ CloseOutput

Spec == Init /\ [][Next]_vars

(***************************************************************************)
(* The same run on an output whose writes can fail.  A failed fwrite       *)
(* writes nothing here; exit(1) is pc = "failed".                          *)
(***************************************************************************)
\* main: the fwrite of write_flv_header fails (its result is not tested), or
\* the first write_output of the blank metadata does (exit(1)).
StartSinkFails ==
    /\ pc = "main"
    /\ \E how \in {"header", "tag"} :
          LET file == IF how = "header" THEN outfile ELSE write_flv_header(outfile)
              g    == generate_metadata_packet(Len(file))
              o    == write_packet([Out EXCEPT !.file = file], g.packet, 0, 0)
          IN  /\ how = "tag" => ~no_meta
              /\ sink' = how
              /\ meta' = IF no_meta THEN meta ELSE [meta EXCEPT !.ofs = g.ofs]
              /\ IF how = "tag"
                 THEN /\ pc' = "failed"
                      /\ msg' = "write"
                      /\ outfile' = file
                      /\ UNCHANGED <<last_video_timestamp, last_audio_timestamp,
                                     last_packet_size, wlog>>
                 ELSE /\ pc' = "list"
                      /\ msg' = "none"
                      /\ IF no_meta
                         THEN /\ outfile' = file
                              /\ UNCHANGED <<last_video_timestamp,
                                             last_audio_timestamp,
                                             last_packet_size, wlog>>
                         ELSE /\ outfile' = o.file
                              /\ last_video_timestamp' = o.lv
                              /\ last_audio_timestamp' = o.la
                              /\ last_packet_size' = o.lps
                              /\ wlog' = o.log
    /\ UNCHANGED <<no_meta, frame_interval, audio_bitrate, seq_header_pkt, buff,
                   pdata, first_time, metadata_extracted, pktarray,
                   file_start_timestamp, first_keyframe_timestamp,
                   lastfile_video_timestamp, mark_in, mark_out, nfiles, ntags,
                   last, keyseen, finalized, fopened, cv>>

\* A pass of append_file's loop that has a packet to write: the first
\* write_output fails and the process exits.
ReadTagSinkFails ==
    /\ pc = "loop"
    /\ ntags < MaxTags
    /\ \E c \in Chunks :
          \E e \in Envs(c) :
              \E r \in {Iterate(c, e[1], e[2])} :
                  /\ ~r.crashed
                  /\ Len(r.o.file) > Len(outfile)
                  /\ last' = [file |-> nfiles, c |-> c, pkt |-> r.packet,
                              fate |-> r.fate, key |-> r.key]
    /\ pc' = "failed"
    /\ sink' = "tag"
    /\ msg' = "write"
    /\ ntags' = ntags + 1
    /\ UNCHANGED <<no_meta, frame_interval, audio_bitrate, outfile,
                   last_video_timestamp, last_audio_timestamp, last_packet_size,
                   seq_header_pkt, buff, pdata, first_time, metadata_extracted,
                   meta, pktarray, file_start_timestamp,
                   first_keyframe_timestamp, lastfile_video_timestamp, mark_in,
                   mark_out, nfiles, keyseen, wlog, finalized, fopened, cv>>

\* main after the last line of the list: the writes of write_metadata fail;
\* put_double prints a message and returns.
FinalizeSinkFails ==
    /\ pc = "list"
    /\ ~no_meta
    /\ pc' = "close"
    /\ \E w \in {write_metadata(outfile, meta,
                     Duration(last_video_timestamp, last_audio_timestamp,
                              last_packet_size, frame_interval, audio_bitrate))} :
          meta' = w.meta
    /\ finalized' = finalized + 1
    /\ sink' = "patch"
    /\ msg' = "double"
    /\ UNCHANGED <<no_meta, frame_interval, audio_bitrate, outfile,
                   last_video_timestamp, last_audio_timestamp, last_packet_size,
                   seq_header_pkt, buff, pdata, first_time, metadata_extracted,
                   pktarray, file_start_timestamp, first_keyframe_timestamp,
                   lastfile_video_timestamp, mark_in, mark_out, nfiles, ntags,
                   last, keyseen, wlog, fopened, cv>>

\* main: the fclose of close_output fails and the process exits.
CloseFails ==
    /\ pc = "close"
    /\ pc' = "failed"
    /\ sink' = "close"
    /\ msg' = "close"
    /\ UNCHANGED <<no_meta, frame_interval, audio_bitrate, outfile,
                   last_video_timestamp, last_audio_timestamp, last_packet_size,
                   seq_header_pkt, buff, pdata, first_time, metadata_extracted,
                   meta, pktarray, file_start_timestamp,
                   first_keyframe_timestamp, lastfile_video_timestamp, mark_in,
                   mark_out, nfiles, ntags, last, keyseen, wlog, finalized,
                   fopened, cv>>

NextSink ==
    \/ Next
    \/ StartSinkFails
    \/ ReadTagSinkFails
    \/ FinalizeSinkFails
    \/ CloseFails

SpecSink == Init /\ [][NextSink]_vars

\* The process is never suspended for ever: main and append_file run
\* without waiting for anything but their input, which is finite.
SpecLive == Spec /\ WF_vars(Next)

(***************************************************************************)
(* The conversions of data_conv.c and the script data of metadata.c        *)
(* applied on their own: cv holds the input x and the byte order be of the *)
(* host, then the bytes written, then what reading them back gives.        *)
(***************************************************************************)
\* Integers to convert; a TLC integer holds no more than 2^31 - 1.
Samples ==
    { 0, 1, 13, 255, 256, 65535, 65536, 16777215, 16777216, 16909060,
      2130706433, 2147483647 }

\* Every variable but cv.
idle ==
    << pc, no_meta, frame_interval, audio_bitrate, outfile,
       last_video_timestamp, last_audio_timestamp, last_packet_size,
       seq_header_pkt, buff, pdata, first_time, metadata_extracted, meta,
       pktarray, file_start_timestamp, first_keyframe_timestamp,
       lastfile_video_timestamp, mark_in, mark_out, nfiles, ntags, last,
       keyseen, wlog, finalized, sink, msg, fopened >>

InitCodec ==
    /\ Boot
    /\ cv \in { [stage |-> "in", be |-> b, x |-> x] : b \in BOOLEAN, x \in Samples }

Encoded(op, bytes) ==
    [stage |-> "enc", op |-> op, be |-> cv.be, x |-> cv.x, bytes |-> bytes]

Decoded(ext, y) ==
    [stage |-> "dec", op |-> cv.op, be |-> cv.be, x |-> cv.x,
     bytes |-> cv.bytes, ext |-> ext, y |-> y]

FormatUi16 ==
    /\ cv.stage = "in" /\ cv.x < 65536
    /\ cv' = Encoded("ui16", format_ui16(cv.be, cv.x))
    /\ UNCHANGED idle

FormatUi24 ==
    /\ cv.stage = "in"
    /\ cv' = Encoded("ui24", format_ui24(cv.be, cv.x))
    /\ UNCHANGED idle

FormatUi32 ==
    /\ cv.stage = "in"
    /\ cv' = Encoded("ui32", format_ui32(cv.be, cv.x))
    /\ UNCHANGED idle

ConvUi16 ==
    /\ cv.stage = "enc" /\ cv.op = "ui16"
    /\ cv' = Decoded(FALSE, conv_ui16(cv.be, cv.bytes))
    /\ UNCHANGED idle

\* ext: the caller passes the fourth byte as highbyte; otherwise it passes 0.
ConvUi24 ==
    /\ cv.stage = "enc" /\ cv.op = "ui24"
    /\ \E ext \in BOOLEAN :
          cv' = Decoded(ext, conv_ui24(cv.be, cv.bytes, IF ext THEN cv.bytes[4] ELSE 0))
    /\ UNCHANGED idle

ConvUi32 ==
    /\ cv.stage = "enc" /\ cv.op = "ui32"
    /\ cv' = Decoded(FALSE, conv_ui32(cv.be, cv.bytes))
    /\ UNCHANGED idle

\* generate_metadata_packet with the output at position x.
GenerateDocument ==
    /\ cv.stage = "in" /\ cv.x < 65536
    /\ \E g \in {generate_metadata_packet(cv.x)} :
          cv' = [stage |-> "doc", be |-> cv.be, x |-> cv.x,
                 bytes |-> g.packet.data, ofs |-> g.ofs]
    /\ UNCHANGED idle

\* extract_metadata on the packet generated, the Metadata Record blank.
DecodeDocument ==
    /\ cv.stage = "doc"
    /\ \E r \in {extract_metadata(cv.bytes, Len(cv.bytes), MetaZero)} :
          cv' = [stage |-> "decoded", be |-> cv.be, x |-> cv.x,
                 bytes |-> cv.bytes, res |-> r]
    /\ UNCHANGED idle

\* A Metadata Record none of whose fields is 0.
MetaSeven ==
    [val |-> [f \in FieldSet |-> IF f = "stereo" THEN 7 ELSE DoubleOfInt(7)],
     ofs |-> [f \in FieldSet |-> 0]]

\* Names of pairs: the ten fields, metadatacreator, "Width" and "widt".
PairNames ==
    { NameOf(f) : f \in FieldSet }
        \cup { S_metadatacreator, <<87, 105, 100, 116, 104>>, <<119, 105, 100, 116>> }

\* Values of pairs as written, with the number parse_number returns for
\* them and its cast to char: a number, the number -1, a boolean, a string
\* and a reference.
PairValues ==
    { [bytes |-> put_double(DoubleOfInt(2)), value |-> DoubleOfInt(2), char |-> 2],
      [bytes |-> put_double(DoubleMinusOne), value |-> DoubleMinusOne, char |-> -1],
      [bytes |-> put_boolean(1), value |-> DoubleOfInt(1), char |-> 1],
      [bytes |-> <<2>> \o put_string(S_creator), value |-> DoubleMinusOne, char |-> -1],
      [bytes |-> <<7, 0, 5>>, value |-> DoubleOfInt(5), char |-> 5] }

\* onMetaData and an ECMA array of count pairs.
ArrayDoc(count, pairs) ==
    <<2>> \o put_string(S_onMetaData) \o <<8>> \o BE(count, 4) \o pairs \o <<0, 0, 9>>

WidthPair == put_string(NameOf("width")) \o put_double(DoubleOfInt(2))

\* Script payloads: one pair of each name and value; a pair whose value
\* starts with a type byte parse_number does not know (5: null, 13), before
\* a pair for width; payloads that end early or declare more than they
\* hold.
ScriptDocs ==
    { [kind |-> "pair", name |-> n, v |-> v,
       bytes |-> ArrayDoc(1, put_string(n) \o v.bytes)] :
          n \in PairNames, v \in PairValues }
    \cup
    { [kind |-> "unknown", name |-> <<120>>, v |-> [bytes |-> <<t>>],
       bytes |-> ArrayDoc(2, put_string(<<120>>) \o <<t>> \o WidthPair)] :
          t \in {5, 13} }
    \cup
    { [kind |-> "short", name |-> <<>>, v |-> [bytes |-> <<>>], bytes |-> b] :
          b \in { <<2>>,
                  <<2, 0, 200>> \o S_onMetaData,
                  Take(ArrayDoc(1, WidthPair), Len(ArrayDoc(1, WidthPair)) - 5),
                  ArrayDoc(3, WidthPair),
                  ArrayDoc(1, put_string(NameOf("width")) \o <<2, 0, 200>>) } }

\* extract_metadata on a script packet whose payload is the document and
\* whose datasize is its length, the Metadata Record being meta0.
DecodeScript ==
    /\ cv.stage = "in"
    /\ \E d \in ScriptDocs, meta0 \in {MetaZero, MetaSeven} :
          \E r \in {extract_metadata(d.bytes, Len(d.bytes), meta0)} :
              cv' = [stage |-> "script", kind |-> d.kind, name |-> d.name,
                     v |-> d.v, bytes |-> d.bytes, meta0 |-> meta0, res |-> r]
    /\ UNCHANGED idle

\* Header lengths an input declares.
HeaderLengths == {0, 4, 5, 8, 9, 10, 14}

\* The bytes of a tag in a file.
TagSeq(c) == c.h \o c.p \o c.b

\* Input files: the signature, version, flags and a declared header length
\* L, then bytes up to offset L + 4 (or 9 if that is more) and a tag; and a
\* file of tags alone.
HeaderFiles ==
    { <<70, 76, 86, 1, 5>> \o BE(L, 4)
          \o Zeros(IF L + 4 > 9 THEN L + 4 - 9 ELSE 0)
          \o TagSeq(Tag(9, 0, 0, <<23, 1>>, 13)) : L \in HeaderLengths }
    \cup { TagSeq(Tag(9, 0, 0, <<23, 1>>, 13)) }

\* append_file from the read of the first 9 bytes to its loop, buff holding
\* buffsize bytes: where in the file the first tag header is read (start),
\* the size of buff afterwards, and whether the read of the rest of the
\* header wrote past the end of buff.  extra_length + 4 is computed in
\* size_t: for a header length below 5 it wraps to more than a file holds.
SkipHeader(file, buffsize) ==
    LET first == Take(file, 9)
    IN  IF Len(first) # 9
        THEN [outcome |-> "short", start |-> Len(first), buffsize |-> buffsize,
              overrun |-> FALSE]
        ELSE IF Take(first, 3) = <<70, 76, 86>>
        THEN LET header_length == conv_ui32(HostBigEndian, SubSeq(first, 6, 9))
                 size == IF header_length + 4 > buffsize
                         THEN header_length + 4 ELSE buffsize
                 rest == Len(file) - 9
                 got  == IF header_length < 5 THEN rest
                         ELSE Min(header_length - 5, rest)
             IN  [outcome |-> "header", start |-> 9 + got, buffsize |-> size,
                  overrun |-> 9 + got > size]
        ELSE [outcome |-> "raw", start |-> 0, buffsize |-> buffsize,
              overrun |-> FALSE]

\* The start of append_file on a file, buff being the 13 bytes of the first
\* malloc; a write past the end of buff may end the process.
OpenHeader ==
    /\ cv.stage = "in"
    /\ \E file \in HeaderFiles, crash \in BOOLEAN :
          \E r \in {SkipHeader(file, 13)} :
              /\ crash => r.overrun
              /\ cv' = [stage |-> "open", file |-> file, res |-> r,
                        crashed |-> crash]
    /\ UNCHANGED idle

NextCodec ==
    \/ OpenHeader
    \/ DecodeScript
    \/ FormatUi16
    \/ FormatUi24
    \/ FormatUi32
    \/ ConvUi16
    \/ ConvUi24
    \/ ConvUi32
    \/ GenerateDocument
    \/ DecodeDocument

SpecCodec == InitCodec /\ [][NextCodec]_vars

(***************************************************************************)
(* Properties.  wlog holds one entry per call of write_packet, in order:   *)
(* ev is "write" or "drop", ts the timestamp after the offset off was      *)
(* added to the source timestamp src, la the value of last_audio_timestamp *)
(* at the call, wfile the input file being processed, at the length of the *)
(* output before the call.                                                 *)
(***************************************************************************)
IsVideoWrite(e) == e.ev = "write" /\ e.type = 9

IsAudioWrite(e) == e.ev = "write" /\ e.type = 8

\* An audio or video packet of an input, routed by the Join Engine.
IsRouted(e) == e.kind = "pkt" /\ e.type \in {8, 9}

\* C1: for two consecutive input files that each emit a video packet, the
\* first video packet emitted from the later file has the output timestamp
\* of the last video packet written before it plus the frame interval.
C1_FirstVideoOfLaterFile ==
    \A i \in 1..Len(wlog), j \in 1..Len(wlog) :
        ( /\ j < i
          /\ IsVideoWrite(wlog[i]) /\ IsVideoWrite(wlog[j])
          /\ wlog[j].wfile = wlog[i].wfile - 1
          /\ \A k \in (j + 1)..(i - 1) : ~IsVideoWrite(wlog[k]) )
        => wlog[i].ts = wlog[j].ts + frame_interval

\* C2: the timestamps of the audio packets written increase strictly, and an
\* audio packet whose source timestamp plus the offset of its file is less
\* than or equal to last_audio_timestamp is dropped.
C2_AudioIncreasingAndDropped ==
    /\ \A i \in 1..Len(wlog), j \in 1..Len(wlog) :
          (i < j /\ IsAudioWrite(wlog[i]) /\ IsAudioWrite(wlog[j]))
          => wlog[i].ts < wlog[j].ts
    /\ \A i \in 1..Len(wlog) :
          (wlog[i].type = 8 /\ wlog[i].src + wlog[i].off <= wlog[i].la)
          => wlog[i].ev = "drop"

\* The source timestamp ts lies outside [mark_in, mark_out).
OutOfMarks(ts) == ts < mark_in \/ ts >= mark_out

\* C3 as claimed: a pass that reads a packet of any type whose source
\* timestamp is outside the marks changes nothing the output depends on:
\* the output, the three counters, the Pending Buffer, the Sequence Header
\* cache and the Metadata Record.
C3_AnyPacketTrimmed ==
    [][ (ntags' = ntags + 1 /\ OutOfMarks(last'.pkt.timestamp))
        => UNCHANGED <<outfile, last_video_timestamp, last_audio_timestamp,
                       last_packet_size, pktarray, seq_header_pkt, meta,
                       metadata_extracted>> ]_vars

\* C3 as amended: a pass that reads an audio or video packet which is not
\* captured as the Sequence Header and whose source timestamp is outside the
\* marks neither buffers nor forwards it and changes none of the output, the
\* counters, the Pending Buffer, the Sequence Header cache, the Metadata
\* Record and the start of the file.
C3_RoutedPacketTrimmed ==
    [][ ( /\ ntags' = ntags + 1
          /\ last'.pkt.type \in {8, 9}
          /\ last'.fate # "seqhdr"
          /\ OutOfMarks(last'.pkt.timestamp) )
        => UNCHANGED <<outfile, last_video_timestamp, last_audio_timestamp,
                       last_packet_size, pktarray, seq_header_pkt, meta,
                       metadata_extracted, first_time, file_start_timestamp,
                       first_keyframe_timestamp, wlog>> ]_vars

\* A file that has written packets reads an audio or video packet outside
\* its marks.
C3_Witness ==
    /\ pc \in {"loop", "list"}
    /\ last.file = nfiles
    /\ last.pkt.type \in {8, 9}
    /\ last.fate = "skipped"
    /\ OutOfMarks(last.pkt.timestamp)
    /\ file_start_timestamp # NoStart
    /\ \E i \in 1..Len(wlog) : IsAudioWrite(wlog[i])

\* C4: a video packet routed by the Join Engine is buffered or written only
\* if it is a video key frame or arrives after a video key frame of its file.
C4_KeyframeGating ==
    /\ \A i \in 1..Len(wlog) :
          (IsVideoWrite(wlog[i]) /\ wlog[i].kind = "pkt") => wlog[i].kf
    /\ \A i \in 1..Len(pktarray) : pktarray[i].type = 9 => pktarray[i].kf

\* C5 as claimed: when a Sequence Header is cached at the pass that finds the
\* first video key frame of a file, the first call of write_packet of that
\* pass is for the header, before every packet flushed from the buffer.
C5_HeaderBeforeFlush ==
    [][ (seq_header_pkt.hasdata /\ file_start_timestamp = NoStart
            /\ Len(wlog') > Len(wlog))
        => wlog'[Len(wlog) + 1].kind = "hdr" ]_vars

\* C5 as amended: at that pass the header is written immediately before the
\* key frame and with its timestamp, after the buffered audio packets, and
\* the cache is empty afterwards.
C5_HeaderBeforeKeyFrame ==
    [][ (seq_header_pkt.hasdata /\ file_start_timestamp = NoStart
            /\ Len(wlog') > Len(wlog))
        => LET n == Len(wlog')
           IN  /\ n - Len(wlog) >= 2
               /\ wlog'[n - 1].kind = "hdr" /\ wlog'[n - 1].ev = "write"
               /\ wlog'[n].kind = "pkt" /\ IsVideoWrite(wlog'[n])
               /\ wlog'[n].rid = ntags'
               /\ wlog'[n - 1].ts = wlog'[n].ts
               /\ wlog'[n - 1].at < wlog'[n].at
               /\ \A k \in (Len(wlog) + 1)..(n - 2) :
                     wlog'[k].type = 8 /\ wlog'[k].at <= wlog'[n - 1].at
               /\ ~seq_header_pkt'.hasdata ]_vars

\* The first file was [configuration record, audio at 0, key frame at 0] and
\* the output holds the audio packet, the record and the key frame, in this
\* order, all with timestamp 0.
C5_Witness ==
    \E i \in 1..Len(wlog) :
        /\ i + 2 <= Len(wlog)
        /\ IsAudioWrite(wlog[i]) /\ wlog[i].kind = "pkt"
        /\ wlog[i + 1].kind = "hdr" /\ IsVideoWrite(wlog[i + 1])
        /\ wlog[i + 2].kind = "pkt" /\ IsVideoWrite(wlog[i + 2])
        /\ wlog[i + 1].rid < wlog[i].rid /\ wlog[i].rid < wlog[i + 2].rid
        /\ \A k \in i..(i + 2) :
              wlog[k].ts = 0 /\ wlog[k].src = 0 /\ wlog[k].wfile = 1
        /\ wlog[i].at < wlog[i + 1].at /\ wlog[i + 1].at < wlog[i + 2].at

\* C6: every audio or video packet written is written while its own file is
\* processed, with the source timestamp plus the offset of that file, and
\* the packets of one file share one offset.
C6_SingleFileOffset ==
    \A i \in 1..Len(wlog) :
        (wlog[i].ev = "write" /\ IsRouted(wlog[i]))
        => /\ wlog[i].rfile = wlog[i].wfile
           /\ wlog[i].ts = wlog[i].src + wlog[i].off
           /\ \A j \in 1..Len(wlog) :
                 ( /\ wlog[j].ev = "write" /\ IsRouted(wlog[j])
                   /\ wlog[j].rfile = wlog[i].rfile )
                 => wlog[j].off = wlog[i].off

\* C7: of every audio or video tag in the output, the type byte, the payload
\* length, the stream id and the payload bytes are those the input held for
\* the packet it came from.
C7_TagFieldsPreserved ==
    \A i \in 1..Len(wlog) :
        (wlog[i].ev = "write" /\ wlog[i].type \in {8, 9})
        => LET e == wlog[i]
           IN  /\ Len(e.h) = 11
               /\ outfile[e.at + 1] = e.h[1]
               /\ SubSeq(outfile, e.at + 2, e.at + 4) = SubSeq(e.h, 2, 4)
               /\ SubSeq(outfile, e.at + 9, e.at + 11) = SubSeq(e.h, 9, 11)
               /\ SubSeq(outfile, e.at + 12, e.at + 11 + e.size) = e.own

\* The tags of the file from pos on: where each starts, its type, its size.
RECURSIVE OutTags(_, _)
OutTags(file, pos) ==
    IF pos + 15 > Len(file) THEN <<>>
    ELSE <<[at |-> pos, type |-> file[pos + 1],
            size |-> BEValue(SubSeq(file, pos + 2, pos + 4))]>>
            \o OutTags(file, pos + 15 + BEValue(SubSeq(file, pos + 2, pos + 4)))

\* C8: with metadata enabled, the output starts with the 13-byte header and
\* the onMetaData tag, written by the first and only call of write_packet
\* for a script tag; no other tag of the output is a script tag; until the
\* finalization the value of each of the ten fields is 0.
C8_PlaceholderFirst ==
    (~no_meta /\ pc # "main")
    => /\ Take(outfile, 13) = FlvHeader
       /\ Len(wlog) >= 1
       /\ wlog[1].type = 18 /\ wlog[1].ev = "write" /\ wlog[1].at = 13
       /\ \A i \in 2..Len(wlog) : wlog[i].type # 18
       /\ LET tags == OutTags(outfile, 13)
          IN  /\ Len(tags) >= 1
              /\ tags[1].type = 18
              /\ \A k \in 2..Len(tags) : tags[k].type # 18
              /\ Len(tags) = Cardinality({i \in 1..Len(wlog) : wlog[i].ev = "write"})
       /\ SubSeq(outfile, 25, 37) = <<2>> \o put_string(S_onMetaData)
       /\ finalized = 0
          => \A f \in FieldSet :
                SubSeq(outfile, meta.ofs[f] + 2, meta.ofs[f] + FieldLen(f))
                    = Zeros(FieldLen(f) - 1)

\* Metadata is enabled, a script packet of an input was decoded, media
\* packets were written and the finalization has not run.
C8_Witness ==
    /\ ~no_meta
    /\ metadata_extracted
    /\ finalized = 0
    /\ \E i \in 1..Len(wlog) : IsVideoWrite(wlog[i])
    /\ \E i \in 1..Len(wlog) : IsAudioWrite(wlog[i])

\* The positions of the output (from 1) inside the ten recorded value fields.
FieldBytes ==
    UNION { (meta.ofs[f] + 1)..(meta.ofs[f] + FieldLen(f)) : f \in FieldSet }

\* C9: the finalization runs once, between the last input and the close; each
\* recorded offset is, inside the placeholder tag, the position of the type
\* marker that follows the name of its field; the patch leaves the length of
\* the output and every byte outside the ten value fields as they were, and
\* sets filesize to the length of the output.
C9_Finalization ==
    [][ /\ finalized' # finalized
           => /\ finalized = 0 /\ finalized' = 1
              /\ pc = "list" /\ pc' = "close"
              /\ Len(outfile') = Len(outfile)
              /\ \A i \in 1..Len(outfile) :
                    i \notin FieldBytes => outfile'[i] = outfile[i]
              /\ \A f \in FieldSet :
                    /\ meta.ofs[f] - Len(NameOf(f)) - 2 >= 13 + 11
                    /\ meta.ofs[f] + FieldLen(f) <= 13 + 11 + wlog[1].size
                    /\ SubSeq(outfile, meta.ofs[f] - Len(NameOf(f)) - 1, meta.ofs[f])
                           = put_string(NameOf(f))
                    /\ outfile[meta.ofs[f] + 1] = (IF f = "stereo" THEN 1 ELSE 0)
                    /\ outfile'[meta.ofs[f] + 1] = outfile[meta.ofs[f] + 1]
              /\ SubSeq(outfile', meta.ofs["filesize"] + 2, meta.ofs["filesize"] + 9)
                     = DoubleOfInt(Len(outfile'))
        /\ finalized = 1 => (pc' \in {"close", "done"} /\ outfile' = outfile)
        /\ (pc' = "done" /\ ~no_meta) => finalized' = 1 ]_vars

\* A run that decoded a width from a script packet and wrote audio and video
\* has ended, finalized.
C9_Witness ==
    /\ pc = "done"
    /\ finalized = 1
    /\ meta.val["width"] = DoubleOfInt(1)
    /\ SubSeq(outfile, meta.ofs["width"] + 2, meta.ofs["width"] + 9) = DoubleOfInt(1)
    /\ \E i \in 1..Len(wlog) : IsVideoWrite(wlog[i])

\* n / d rounded to the nearest integer (halves up), for n >= 0 and d > 0.
RoundedRatio(n, d) == (2 * n + d) \div (2 * d)

\* C10: the duration written at the finalization is, in ms,
\* last_video_timestamp + frame_interval when last_video_timestamp >=
\* last_audio_timestamp, else last_audio_timestamp + the rounded
\* 1000 * last_packet_size * 8 / audio_bitrate.
C10_Duration ==
    finalized = 1
    => meta.val["duration"] =
          DoubleOfRatio(IF last_video_timestamp >= last_audio_timestamp
                        THEN last_video_timestamp + frame_interval
                        ELSE last_audio_timestamp
                                + RoundedRatio(8000 * last_packet_size, audio_bitrate),
                        1000)

\* C11: a pass of main's loop whose fopen fails prints the error, leaves the
\* output, the three counters, the Sequence Header cache, the Pending Buffer
\* and the Metadata Record as they were, and returns to the loop that reads
\* the next line of the list.
C11_FailedOpenSkipsFile ==
    [][ (nfiles' = nfiles + 1 /\ ~fopened')
        => /\ msg' = "open"
           /\ pc' = "list"
           /\ UNCHANGED <<outfile, last_video_timestamp, last_audio_timestamp,
                          last_packet_size, seq_header_pkt, pktarray, meta,
                          metadata_extracted, first_time, wlog>> ]_vars

\* The second file of the list cannot be opened after the first wrote audio
\* and video and left a Sequence Header in the cache.
C11_Witness ==
    /\ nfiles = 2
    /\ ~fopened
    /\ msg = "open"
    /\ pc = "list"
    /\ seq_header_pkt.hasdata
    /\ \E i \in 1..Len(wlog) : IsVideoWrite(wlog[i]) /\ wlog[i].wfile = 1
    /\ \E i \in 1..Len(wlog) : IsAudioWrite(wlog[i]) /\ wlog[i].wfile = 1

\* C12: once a write to the output, or its close, has failed, the run has
\* ended with exit(1): it never goes on after the failure.
C12_SinkFailureAborts == sink # "ok" => pc = "failed"

\* C13: a pass whose read of the tag header returned between 1 and 10 bytes
\* ends the run with exit(1).
C13_ShortHeaderAborts ==
    (last.file > 0 /\ Len(last.c.h) \in 1..10) => pc = "failed"

\* C14: with the option -n the output is the 13-byte header followed by
\* whole audio and video tags only, write_packet is never called for a
\* script tag, no script packet of an input is decoded (the Metadata Record
\* stays blank) and write_metadata is never called.
C14_NoMetaNoScript ==
    (no_meta /\ pc # "main")
    => /\ Take(outfile, 13) = FlvHeader
       /\ LET tags == OutTags(outfile, 13)
          IN  /\ \A k \in 1..Len(tags) : tags[k].type \in {8, 9}
              /\ Len(outfile) = IF tags = <<>> THEN 13
                                ELSE tags[Len(tags)].at + 15 + tags[Len(tags)].size
       /\ \A i \in 1..Len(wlog) : wlog[i].type # 18
       /\ last.fate # "decoded"
       /\ ~metadata_extracted
       /\ meta = MetaZero
       /\ finalized = 0

\* A run with -n that wrote video and then read a script packet has ended.
C14_Witness ==
    /\ no_meta
    /\ pc = "done"
    /\ last.pkt.type = 18
    /\ last.fate = "script"
    /\ \E i \in 1..Len(wlog) : IsVideoWrite(wlog[i])

\* C15: write_packet is called for a script tag only with the blank metadata
\* of main, never with a packet of an input; and once metadata_extracted is
\* set it stays set, and a pass that reads a script packet neither decodes
\* it nor changes the Metadata Record.
C15_ScriptPackets ==
    [][ /\ \A i \in (Len(wlog) + 1)..Len(wlog') :
              wlog'[i].type = 18 => (wlog'[i].kind = "meta" /\ pc = "main")
        /\ metadata_extracted => metadata_extracted'
        /\ (metadata_extracted /\ ntags' = ntags + 1 /\ last'.pkt.type = 18)
           => (last'.fate = "script" /\ meta' = meta) ]_vars

\* After the onMetaData packet of the first file was decoded, the second
\* file shows a script packet.
C15_Witness ==
    /\ ~no_meta
    /\ metadata_extracted
    /\ meta.val["width"] = DoubleOfInt(1)
    /\ last.file = 2
    /\ last.pkt.type = 18
    /\ last.fate = "script"

\* C16: the bytes format_ui16, format_ui24 and format_ui32 give for x are x
\* in big-endian order on a host of either byte order (for format_ui24 the
\* three low bytes, then the high byte), and conv_ui16, conv_ui32, conv_ui24
\* with the fourth byte as highbyte, and conv_ui24 with highbyte 0 for
\* x < 2^24, give x back from them.
C16_IntegerRoundTrip ==
    /\ cv.stage \in {"enc", "dec"}
       => CASE cv.op = "ui16" -> cv.bytes = BE(cv.x, 2)
            [] cv.op = "ui24" ->
                  cv.bytes = BE(cv.x % Pow2(24), 3) \o <<cv.x \div Pow2(24)>>
            [] cv.op = "ui32" -> cv.bytes = BE(cv.x, 4)
    /\ cv.stage = "dec"
       => \/ cv.y = cv.x
          \/ cv.op = "ui24" /\ ~cv.ext /\ cv.x >= Pow2(24)

\* A big-endian host got back, with the extension byte, a timestamp that
\* does not fit 24 bits.
C16_Witness ==
    /\ cv.stage = "dec"
    /\ cv.op = "ui24"
    /\ cv.ext
    /\ cv.be
    /\ cv.x >= Pow2(24)
    /\ cv.bytes[4] # 0
    /\ cv.y = cv.x

\* The eleven names of the document generate_metadata_packet builds.
DocNames ==
    [i \in 1..11 |-> IF i <= 10 THEN NameOf(Fields[i]) ELSE S_metadatacreator]

\* What both readings of C17 share: extract_metadata finds onMetaData, calls
\* add_meta_item for the eleven names in the order written and then for
\* onMetaData, with the ten numbers written, and stops at the end marker.
DocumentDecoded(r) ==
    /\ ~r.fault
    /\ r.found
    /\ Len(r.items) = 12
    /\ r.items[12][1] = S_onMetaData
    /\ \A i \in 1..11 : r.items[i][1] = DocNames[i]
    /\ \A i \in 1..10 : r.items[i][2] = Zeros(8)
    /\ r.pos = Len(cv.bytes) - 3
    /\ SubSeq(cv.bytes, r.pos + 1, r.pos + 3) = <<0, 0, 9>>

\* C17 as claimed: decoding the document generated recovers the eleven
\* pairs, the string written for metadatacreator included.
C17_DocumentRoundTrip ==
    cv.stage = "decoded"
    => (DocumentDecoded(cv.res) /\ cv.res.items[11][2] = S_creator)

\* C17 as amended: decoding the document generated recovers the name
\* onMetaData, the eleven names in order and the ten numeric and boolean
\* values written; the string of metadatacreator is skipped, its pair
\* carries the value -1 that add_meta_item ignores; the cursor stops at the
\* end marker and the Metadata Record stays blank.
C17_DocumentNamesAndNumbers ==
    cv.stage = "decoded"
    => /\ DocumentDecoded(cv.res)
       /\ cv.res.items[11][2] = DoubleMinusOne
       /\ cv.res.items[12][2] = DoubleMinusOne
       /\ cv.res.meta = MetaZero

\* The document generated after the 13-byte header was decoded.
C17_Witness ==
    /\ cv.stage = "decoded"
    /\ cv.x = 13
    /\ Len(cv.bytes) = 253
    /\ Len(cv.res.items) = 12

\* The packet e was read whole: 11 bytes of header and all its payload.
ReadWhole(e, size) == Len(e.h) = 11 /\ Len(e.own) = size

\* C18: when the loop of an input file starts the state is SeekingStart and
\* the Pending Buffer holds no packet read whole from an earlier file, and
\* no packet read whole is written while a file other than the one it was
\* read from is processed.
C18_FreshBufferPerFile ==
    /\ (pc = "loop" /\ last.file # nfiles)
       => /\ file_start_timestamp = NoStart
          /\ \A i \in DOMAIN pktarray :
                ~ReadWhole(pktarray[i], pktarray[i].datasize)
    /\ \A i \in DOMAIN wlog :
          (wlog[i].kind = "pkt" /\ ReadWhole(wlog[i], wlog[i].size))
          => wlog[i].rfile = wlog[i].wfile

\* The reads c returned a whole video tag that is an AVC configuration
\* record by its own payload.
IsConfigRecord(c) ==
    /\ Len(c.h) = 11 /\ c.h[1] = 9
    /\ Len(c.p) >= 2
    /\ Len(c.p) = conv_ui24(HostBigEndian, SubSeq(c.h, 2, 4), 0)
    /\ c.p[1] % 16 = 7
    /\ c.p[2] = 0
    /\ Len(c.b) = 4

\* C19: every pass that reads an AVC configuration record captures it: the
\* record becomes the cached Sequence Header, whether or not one was cached,
\* and the pass buffers nothing, writes nothing and fixes no offset.
C19_ConfigRecordAlwaysCaptured ==
    [][ (ntags' = ntags + 1 /\ pc' # "crashed" /\ IsConfigRecord(last'.c))
        => /\ last'.fate = "seqhdr"
           /\ seq_header_pkt'.hasdata
           /\ seq_header_pkt'.rid = ntags'
           /\ UNCHANGED <<pktarray, wlog, file_start_timestamp>> ]_vars

\* C20: a pass that writes a video packet, read whole, while a Sequence
\* Header is cached writes the header immediately before it, with its
\* timestamp, and leaves the cache empty.
C20_HeaderBeforeNextVideo ==
    [][ \A i \in (Len(wlog) + 1)..Len(wlog') :
           (/\ seq_header_pkt.hasdata
            /\ IsVideoWrite(wlog'[i])
            /\ wlog'[i].kind = "pkt"
            /\ ReadWhole(wlog'[i], wlog'[i].size))
           => /\ i - 1 > Len(wlog)
              /\ wlog'[i - 1].kind = "hdr"
              /\ wlog'[i - 1].ev = "write"
              /\ wlog'[i - 1].ts = wlog'[i].ts
              /\ ~seq_header_pkt'.hasdata ]_vars

\* The last entry of the write log is packet rid, written with timestamp ts.
LastWritten(log, rid, ts) ==
    /\ log # <<>>
    /\ log[Len(log)].rid = rid
    /\ log[Len(log)].kind = "pkt"
    /\ log[Len(log)].ev = "write"
    /\ log[Len(log)].ts = ts

\* C21 as claimed: in the first file the key frame that ends SeekingStart
\* sets the offset to the negation of its own source timestamp and is
\* written with timestamp 0, whatever audio came before it.
C21_FirstOffsetFromKeyFrame ==
    [][ (/\ ntags' = ntags + 1
         /\ nfiles = 1
         /\ first_time
         /\ last'.fate = "keyframe"
         /\ ReadWhole(last'.pkt, last'.pkt.datasize))
        => /\ file_start_timestamp' = 0 - last'.pkt.timestamp
           /\ LastWritten(wlog', ntags', 0) ]_vars

\* C21 as amended: the first key frame of the run that ends SeekingStart
\* sets the offset to the negation of the source timestamp of the first
\* qualifying audio packet or video key frame of its file; that is the key
\* frame itself, then written with timestamp 0, when no qualifying audio
\* packet of the file came before it, and otherwise the first such audio
\* packet, which is the first packet of the file in the Pending Buffer.
C21_FirstOffsetFromFirstPacket ==
    [][ (ntags' = ntags + 1 /\ first_time /\ last'.fate = "keyframe")
        => /\ ~first_time'
           /\ file_start_timestamp' = 0 - first_keyframe_timestamp'
           /\ IF first_keyframe_timestamp = -1
              THEN /\ first_keyframe_timestamp' = last'.pkt.timestamp
                   /\ LastWritten(wlog', ntags', 0)
                   /\ \A i \in DOMAIN pktarray : pktarray[i].rfile # nfiles
              ELSE /\ first_keyframe_timestamp' = first_keyframe_timestamp
                   /\ \E i \in DOMAIN pktarray :
                         /\ pktarray[i].rfile = nfiles
                         /\ pktarray[i].type = 8
                         /\ pktarray[i].timestamp = first_keyframe_timestamp
                         /\ \A j \in 1..(i - 1) : pktarray[j].rfile # nfiles ]_vars

\* The first file: audio at 0 was buffered, the key frame at a later
\* timestamp set the offset to 0 and was written with its own timestamp.
C21_Witness ==
    /\ nfiles = 1
    /\ ~first_time
    /\ last.fate = "keyframe"
    /\ last.pkt.timestamp = Late
    /\ file_start_timestamp = 0
    /\ Len(wlog) >= 2
    /\ IsAudioWrite(wlog[Len(wlog) - 1])
    /\ wlog[Len(wlog) - 1].src = 0
    /\ LastWritten(wlog, ntags, Late)

\* C22: a pass that leaves its file in SeekingStart writes no byte, and all
\* packets written while one file is processed are written with one offset.
C22_NoWriteBeforeOffset ==
    [][ pc = "loop"
        => /\ file_start_timestamp' = NoStart => outfile' = outfile
           /\ \A i, j \in DOMAIN wlog' :
                 (wlog'[i].kind # "meta" /\ wlog'[j].kind # "meta"
                  /\ wlog'[i].wfile = wlog'[j].wfile)
                 => wlog'[i].off = wlog'[j].off ]_vars

IsPkt(e) == e.kind = "pkt"

\* The packets of a part of the write log or of the Pending Buffer, by the
\* number of the pass that read them.
Rids(seq) == [i \in 1..Len(seq) |-> seq[i].rid]

\* C23: a pass that reads a qualifying audio packet in SeekingStart appends
\* it to the Pending Buffer, writes nothing and stays in SeekingStart; the
\* pass of a key frame that ends SeekingStart hands to write_packet the
\* buffered packets in arrival order and then the key frame, and leaves the
\* buffer empty; no packet is handed to write_packet twice.
C23_BufferThenFlush ==
    [][ ntags' = ntags + 1
        => /\ (/\ file_start_timestamp = NoStart
               /\ last'.pkt.type = 8
               /\ ~Trimmed(last'.pkt.timestamp, mark_in, mark_out))
              => /\ last'.fate = "buffered"
                 /\ pktarray' = Append(pktarray, last'.pkt)
                 /\ file_start_timestamp' = NoStart
                 /\ UNCHANGED <<outfile, wlog>>
           /\ last'.fate = "keyframe"
              => /\ Rids(SelectSeq(SubSeq(wlog', Len(wlog) + 1, Len(wlog')), IsPkt))
                       = Rids(pktarray) \o <<ntags'>>
                 /\ pktarray' = <<>>
           /\ \A i, j \in DOMAIN wlog' :
                 (IsPkt(wlog'[i]) /\ IsPkt(wlog'[j]) /\ i # j)
                 => wlog'[i].rid # wlog'[j].rid ]_vars

\* Two audio packets were buffered and then written, in that order, before
\* the key frame that ended SeekingStart.
C23_Witness ==
    /\ last.fate = "keyframe"
    /\ pktarray = <<>>
    /\ Rids(wlog) = <<1, 2, 3>>
    /\ IsAudioWrite(wlog[1])
    /\ IsAudioWrite(wlog[2])
    /\ IsVideoWrite(wlog[3])
    /\ wlog[1].src # wlog[2].src

\* C24: every tag write_packet wrote from a packet read whole ends with a
\* back-pointer of its payload length + 11.
C24_BackPointerRecomputed ==
    \A i \in DOMAIN wlog :
        (wlog[i].ev = "write" /\ wlog[i].kind # "meta"
         /\ ReadWhole(wlog[i], wlog[i].size))
        => SubSeq(outfile, wlog[i].at + wlog[i].size + 12,
                  wlog[i].at + wlog[i].size + 15) = BE(wlog[i].size + 11, 4)

\* The size of the last packet of the log that was written, 0 if none was.
SizeOfLastWrite(log) ==
    LET W == { i \in DOMAIN log : log[i].ev = "write" }
    IN  IF W = {} THEN 0
        ELSE log[CHOOSE i \in W : \A j \in W : j <= i].size

\* The entries a step added to the write log.
Added(log, log2) == SubSeq(log2, Len(log) + 1, Len(log2))

\* C25 as claimed: after write_packet dropped a packet, read whole,
\* last_packet_size is the size of the dropped packet.
C25_DropSetsLastPacketSize ==
    [][ (/\ Len(wlog') > Len(wlog)
         /\ wlog'[Len(wlog')].ev = "drop"
         /\ ReadWhole(wlog'[Len(wlog')], wlog'[Len(wlog')].size))
        => last_packet_size' = wlog'[Len(wlog')].size ]_vars

\* C25 as amended: write_packet leaves last_packet_size alone when it drops
\* a packet: after every call last_packet_size is the size of the last
\* packet written, and a pass that only drops changes neither the output
\* nor last_packet_size nor the last timestamps.
C25_DropKeepsLastPacketSize ==
    [][ Len(wlog') > Len(wlog)
        => /\ last_packet_size' = SizeOfLastWrite(wlog')
           /\ (\A i \in DOMAIN Added(wlog, wlog') : Added(wlog, wlog')[i].ev = "drop")
              => UNCHANGED <<outfile, last_packet_size, last_video_timestamp,
                             last_audio_timestamp>> ]_vars

\* In Streaming an audio packet was dropped whose size is not that of the
\* last packet written.
C25_Witness ==
    /\ last.fate = "forwarded"
    /\ wlog # <<>>
    /\ wlog[Len(wlog)].ev = "drop"
    /\ wlog[Len(wlog)].rid = ntags
    /\ wlog[Len(wlog)].size # last_packet_size
    /\ last_packet_size = SizeOfLastWrite(wlog)

\* The size of the last audio packet of the log that was written.
SizeOfLastAudioWrite(log) ==
    LET W == { i \in DOMAIN log : IsAudioWrite(log[i]) }
    IN  IF W = {} THEN 0
        ELSE log[CHOOSE i \in W : \A j \in W : j <= i].size

\* C26: when the finalization has taken the audio branch of the duration
\* formula, all packets having been read whole and written with timestamps
\* that did not wrap, last_packet_size is the size of the last audio packet
\* written.
C26_AudioBranchUsesAudioSize ==
    (/\ ~no_meta
     /\ pc = "close"
     /\ last_video_timestamp < last_audio_timestamp
     /\ \A i \in DOMAIN wlog :
           \/ wlog[i].kind = "meta"
           \/ /\ ReadWhole(wlog[i], wlog[i].size)
              /\ wlog[i].ts = wlog[i].src + wlog[i].off)
    => last_packet_size = SizeOfLastAudioWrite(wlog)

\* The fields add_meta_item stores.
StoredFields == FieldSet \ {"duration", "filesize"}

\* C27: decoding a pair changes the Metadata Record only if its name is one
\* of the eight stored fields and its value is not -1, and then only that
\* field, to the value decoded (cast to char for stereo); a pair named
\* duration or filesize changes nothing.
C27_OnlyNamedFieldsStored ==
    (cv.stage = "script" /\ cv.kind = "pair")
    => /\ ~cv.res.fault
       /\ cv.res.found
       /\ \A f \in FieldSet :
             cv.res.meta.val[f] =
                 IF f \in StoredFields /\ NameOf(f) = cv.name
                    /\ cv.v.value # DoubleMinusOne
                 THEN (IF f = "stereo" THEN cv.v.char ELSE cv.v.value)
                 ELSE cv.meta0.val[f]
       /\ cv.res.meta.ofs = cv.meta0.ofs

\* A pair for height was decoded into a record that held other values.
C27_Witness ==
    /\ cv.stage = "script"
    /\ cv.kind = "pair"
    /\ cv.name = NameOf("height")
    /\ cv.meta0 = MetaSeven
    /\ cv.res.meta.val["height"] = DoubleOfInt(2)
    /\ cv.res.meta.val["width"] = DoubleOfInt(7)

\* C28: a packet with an unrecognized type byte leaves the Metadata Record
\* as it was for every pair after that byte and is not taken as the
\* onMetaData packet.
C28_UnknownTypeStopsDecode ==
    (cv.stage = "script" /\ cv.kind = "unknown")
    => /\ cv.res.meta = cv.meta0
       /\ ~cv.res.found

\* C29: decoding reads nothing outside the payload and the cursor ends
\* within it.
C29_CursorWithinPayload ==
    cv.stage = "script"
    => /\ ~cv.res.fault
       /\ cv.res.pos <= Len(cv.bytes)

\* C30: a pass whose read of the tag header returned fewer than 11 bytes
\* ends the file and builds no packet: nothing is buffered, cached or
\* written by it.
C30_ShortHeaderEndsFile ==
    [][ (ntags' = ntags + 1 /\ Len(last'.c.h) < 11)
        => /\ pc' = "list"
           /\ last'.fate = "none"
           /\ UNCHANGED <<outfile, wlog, pktarray, seq_header_pkt,
                          file_start_timestamp>> ]_vars

\* C31: for a file that begins with the signature and declares header length
\* L, the first tag header is read at offset L + 4; for a file without the
\* signature it is read at offset 0.
C31_TagsStartAfterHeader ==
    (cv.stage = "open" /\ Len(cv.file) >= 9)
    => IF Take(cv.file, 3) = <<70, 76, 86>>
       THEN /\ ~cv.crashed
            /\ ~cv.res.overrun
            /\ cv.res.start = BEValue(SubSeq(cv.file, 6, 9)) + 4
       ELSE cv.res.start = 0

\* C32: once a packet has been written while a file is processed, the file
\* is in Streaming: no later packet of it, read whole, is buffered,
\* discarded as coming before the key frame, or taken as the key frame that
\* ends SeekingStart.
C32_StreamingUntilEndOfFile ==
    [][ (/\ pc = "loop"
         /\ ntags' = ntags + 1
         /\ ReadWhole(last'.pkt, last'.pkt.datasize)
         /\ \E i \in DOMAIN wlog :
               wlog[i].kind # "meta" /\ wlog[i].wfile = nfiles)
        => last'.fate \notin {"buffered", "discarded", "keyframe"} ]_vars

\* C33: every packet written, read whole, is written with the timestamp
\* source timestamp + offset, a sum that lies within the range of the
\* timestamp.
C33_TimestampNeverWraps ==
    \A i \in DOMAIN wlog :
        (wlog[i].kind # "meta" /\ wlog[i].ev = "write"
         /\ ReadWhole(wlog[i], wlog[i].size))
        => /\ wlog[i].src + wlog[i].off \in 0..(UIntMod - 1)
           /\ wlog[i].ts = wlog[i].src + wlog[i].off

\* C34: a pass that read a whole video tag header takes the packet as a
\* configuration record only if the two first bytes of the payload it read
\* say so, and as a key frame only if the first byte it read says so.
C34_ClassifiedByOwnPayload ==
    [][ (/\ ntags' = ntags + 1
         /\ pc' # "crashed"
         /\ Len(last'.c.h) = 11
         /\ last'.c.h[1] = 9)
        => /\ last'.fate = "seqhdr"
              => /\ Len(last'.c.p) >= 2
                 /\ last'.c.p[1] % 16 = 7
                 /\ last'.c.p[2] = 0
           /\ last'.key
              => /\ Len(last'.c.p) >= 1
                 /\ last'.c.p[1] \div 16 = 1 ]_vars

\* C35: no run ends before the finalization and the close of the output:
\* the process is never killed inside append_file, and a run that is done
\* has finalized once.
C35_RunCompletes ==
    /\ pc # "crashed"
    /\ pc = "done" => (no_meta \/ finalized = 1)

=============================================================================
